---- MODULE Spec2Model ----
(***************************************************************************)
(* Model of the OVM code-generation backend: the Assembly item container,  *)
(* the opcode rewrite hook of CompilerContext (appendCallback,             *)
(* simpleRewrite, complexRewrite) and the low-level function registry      *)
(* (lowLevelFunctionTag, callLowLevelFunction,                             *)
(* appendMissingLowLevelFunctions).                                        *)
(***************************************************************************)
EXTENDS Integers, Sequences, FiniteSets, TLC

\* ------------------------------------------------------------------ bounds
\* Number of code-generator steps (appends, helper requests, stack-offset
\* changes, generator-body steps) in one run.
MaxSteps == 2

\* Stack heights the code generator sets at a function entry (seven slots are
\* what the widest opcodes, CALL and CALLCODE, consume).
StackOffsets == {2, 7}

\* Names of helpers requested by internal call sites other than the rewrite
\* policy, and the generator closures those call sites pass, each written for
\* one pair of arities.
UserNames == {"f", "g"}
UserGenerators == {"g1", "g2"}
GeneratorArity == [g1 |-> <<0, 0>>, g2 |-> <<1, 1>>]

\* ------------------------------------------------------------------ items
\* libevmasm/AssemblyItem: type, instruction (operations), data (tag id or
\* pushed value), jump type annotation.
Item(t, i, d, j) == [type |-> t, instr |-> i, data |-> d, jump |-> j]
Op(i) == Item("Operation", i, 0, "Ordinary")
JumpOp(j) == Item("Operation", "JUMP", 0, j)
PushItem(v) == Item("Push", "", v, "Ordinary")
PushTagItem(t) == Item("PushTag", "", t, "Ordinary")
TagItem(t) == Item("Tag", "", t, "Ordinary")
\* data = 1: the referenced blob contains the byte 0x5b; data = 0: it does not
PushDataItem(d) == Item("PushData", "", d, "Ordinary")

\* instructionInfo(): <<args, ret>> of the opcodes the model uses
InstructionInfo ==
  [ SSTORE |-> <<2, 0>>, SLOAD |-> <<1, 1>>, EXTCODESIZE |-> <<1, 1>>,
    EXTCODEHASH |-> <<1, 1>>, CALLER |-> <<0, 1>>, ADDRESS |-> <<0, 1>>,
    TIMESTAMP |-> <<0, 1>>, NUMBER |-> <<0, 1>>, CHAINID |-> <<0, 1>>,
    GASLIMIT |-> <<0, 1>>, CALL |-> <<7, 1>>, STATICCALL |-> <<6, 1>>,
    DELEGATECALL |-> <<6, 1>>, REVERT |-> <<2, 0>>, CREATE |-> <<3, 1>>,
    CREATE2 |-> <<4, 1>>, EXTCODECOPY |-> <<4, 0>>,
    BLOCKHASH |-> <<1, 1>>, CALLCODE |-> <<7, 1>>, COINBASE |-> <<0, 1>>,
    DIFFICULTY |-> <<0, 1>>, GASPRICE |-> <<0, 1>>, ORIGIN |-> <<0, 1>>,
    SELFDESTRUCT |-> <<1, 0>>,
    BALANCE |-> <<1, 1>>, SELFBALANCE |-> <<0, 1>>,
    RETURNDATACOPY |-> <<3, 0>>, RETURNDATASIZE |-> <<0, 1>>,
    GAS |-> <<0, 1>>, POP |-> <<1, 0>>, JUMP |-> <<1, 0>>, JUMPI |-> <<2, 0>>,
    ADD |-> <<2, 1>>, EQ |-> <<2, 1>>, PC |-> <<0, 1>>, MSIZE |-> <<0, 1>>,
    MSTORE |-> <<2, 0>>, DUP1 |-> <<1, 2>>,
    SWAP1 |-> <<2, 2>>, SWAP2 |-> <<3, 3>>, SWAP3 |-> <<4, 4>>,
    OVM_PLACEHOLDER_CALLER |-> <<0, 1>>, OVM_PLACEHOLDER_CALL |-> <<7, 1>> ]

Instructions == DOMAIN InstructionInfo

\* AssemblyItem::deposit(): net stack effect of one item
ItemDeposit(i) ==
  CASE i.type = "Operation" -> InstructionInfo[i.instr][2] - InstructionInfo[i.instr][1]
    [] i.type \in {"Push", "PushTag", "PushData"} -> 1
    [] OTHER -> 0

\* ------------------------------------------------- inline-assembly builtins
\* Code emitted by the "kall" builtin after its four arguments were visited.
KallItems ==
  << Op("OVM_PLACEHOLDER_CALLER"), PushItem(0), Op("SWAP1"), Op("GAS"),
     Op("OVM_PLACEHOLDER_CALL"), Op("PC"), PushItem(29), Op("ADD"), Op("JUMPI"),
     Op("RETURNDATASIZE"), PushItem(1), Op("EQ"), Op("PC"), PushItem(12), Op("ADD"),
     Op("JUMPI"), Op("RETURNDATASIZE"), PushItem(0), Op("DUP1"), Op("RETURNDATACOPY"),
     Op("RETURNDATASIZE"),
     PushItem(1193046), Op("MSTORE"), PushItem(234), PushItem(4252), Op("MSTORE") >>

\* Code emitted by the "kopy" builtin after its four arguments were visited.
KopyItems ==
  << Op("CALLER"), Op("POP"), PushItem(0), PushItem(4), Op("GAS"), Op("CALL"), Op("POP") >>

\* visitArguments for a builtin with four parameters: four values are pushed
\* (the argument expressions themselves are abstracted to constant pushes).
FourArguments == << PushItem(0), PushItem(0), PushItem(0), PushItem(0) >>

\* Yul bodies handed to complexRewrite by appendCallback.  callYUL is the only
\* one that uses kopy besides kall.
YulBodies == {"simple", "callYUL", "revert", "create", "create2", "extcodecopy"}

\* The items the Yul code generator appends for asm_code + code: the two
\* block-level variables (methodId, callBytes := msize()), the builtin calls
\* of the body, and the pops that end the block.  Memory stores, loops and
\* assignments to the caller's variables are left out: they are balanced and
\* contain no opcode the rewrite policy classifies.
InlineAssemblyItems(code) ==
  << PushItem(0), Op("MSIZE") >>
  \o FourArguments \o KallItems
  \o (IF code = "callYUL" THEN FourArguments \o KopyItems ELSE << >>)
  \o << Op("POP"), Op("POP") >>

\* ------------------------------------------------------ opcode classification
\* case labels of the switch in appendCallback
WarnedInstructions == {"SELFBALANCE", "BALANCE"}
ForbiddenInstructions ==
  {"BLOCKHASH", "CALLCODE", "COINBASE", "DIFFICULTY", "GASPRICE", "ORIGIN", "SELFDESTRUCT"}
ReturndataInstructions == {"RETURNDATACOPY", "RETURNDATASIZE"}

\* simpleRewrite(function, in, out, optimize) calls of the switch
SimpleRewrites ==
  [ SSTORE |-> [function |-> "ovmSSTORE(bytes32,bytes32)", in |-> 2, out |-> 0, optimize |-> TRUE],
    SLOAD |-> [function |-> "ovmSLOAD(bytes32)", in |-> 1, out |-> 1, optimize |-> TRUE],
    EXTCODESIZE |-> [function |-> "ovmEXTCODESIZE(address)", in |-> 1, out |-> 1, optimize |-> TRUE],
    EXTCODEHASH |-> [function |-> "ovmEXTCODEHASH(address)", in |-> 1, out |-> 1, optimize |-> TRUE],
    CALLER |-> [function |-> "ovmCALLER()", in |-> 0, out |-> 1, optimize |-> TRUE],
    ADDRESS |-> [function |-> "ovmADDRESS()", in |-> 0, out |-> 1, optimize |-> FALSE],
    TIMESTAMP |-> [function |-> "ovmTIMESTAMP()", in |-> 0, out |-> 1, optimize |-> TRUE],
    NUMBER |-> [function |-> "ovmNUMBER()", in |-> 0, out |-> 1, optimize |-> TRUE],
    CHAINID |-> [function |-> "ovmCHAINID()", in |-> 0, out |-> 1, optimize |-> TRUE],
    GASLIMIT |-> [function |-> "ovmGASLIMIT()", in |-> 0, out |-> 1, optimize |-> TRUE] ]

\* complexRewrite(function, in, out, code, localVariables) calls of the switch
ComplexRewrites ==
  [ CALL |-> [function |-> "ovmCALL(uint256,address,bytes)", in |-> 7, out |-> 1, code |-> "callYUL"],
    STATICCALL |-> [function |-> "ovmSTATICCALL(uint256,address,bytes)", in |-> 6, out |-> 1, code |-> "callYUL"],
    DELEGATECALL |-> [function |-> "ovmDELEGATECALL(uint256,address,bytes)", in |-> 6, out |-> 1, code |-> "callYUL"],
    REVERT |-> [function |-> "ovmREVERT(bytes)", in |-> 2, out |-> 0, code |-> "revert"],
    CREATE |-> [function |-> "ovmCREATE(bytes)", in |-> 3, out |-> 1, code |-> "create"],
    CREATE2 |-> [function |-> "ovmCREATE2(bytes,bytes32)", in |-> 4, out |-> 1, code |-> "create2"],
    EXTCODECOPY |-> [function |-> "ovmEXTCODECOPY(address,uint256,uint256)", in |-> 4, out |-> 0, code |-> "extcodecopy"] ]

RewrittenInstructions == DOMAIN SimpleRewrites \cup DOMAIN ComplexRewrites

\* helper name used for a rewritten opcode
RewriteFunction(o) ==
  IF o \in DOMAIN SimpleRewrites THEN SimpleRewrites[o].function ELSE ComplexRewrites[o].function

\* ------------------------------------------------------------------ state
VARIABLES
  m_items,                \* Assembly::m_items
  m_deposit,              \* Assembly::m_deposit
  m_usedTags,             \* Assembly::m_usedTags
  m_lowLevelFunctions,    \* CompilerContext: name -> entry tag
  m_lowLevelFunctionGenerationQueue,  \* CompilerContext: pending helpers
  m_disable_rewrite,      \* CompilerContext: hook suspended
  warnings,               \* diagnostics recorded by m_errorReporter
  failed,                 \* a fatal assertion aborted the compilation
  pc,                     \* "main", "drain" (in appendMissingLowLevelFunctions), "gen" (a generator is running)
  cur,                    \* the queue entry whose generator is running
  steps,                  \* code-generator steps taken
  requests,               \* history: every lowLevelFunctionTag call with the tag it returned
  generated,              \* history: every generator invocation of the drain
  hooklog,                \* history: the appendCallback invocations of the last operation
  hookDepth,              \* history: deepest nesting of active hook invocations in the last operation
  last,                   \* history: the last operation, its argument and what it started from
  rewritten               \* history: the opcodes the hook replaced, in order

vars == << m_items, m_deposit, m_usedTags, m_lowLevelFunctions,
           m_lowLevelFunctionGenerationQueue, m_disable_rewrite, warnings, failed,
           pc, cur, steps, requests, generated, hooklog, hookDepth, last, rewritten >>

VARIABLES
  optimised               \* history: the JumpdestRemover::optimise calls with their results

\* the variables of the other components, which the code generator leaves alone
passvars == << optimised >>

VARIABLES
  m_entryLabels,               \* FunctionCompilationQueue: declaration -> entry tag id
  m_alreadyCompiledFunctions,  \* FunctionCompilationQueue: the declarations started
  m_functionsToCompile,        \* FunctionCompilationQueue: the pending queue
  compilations,                \* history: nextFunctionToCompile results and startFunction calls
  labelled                     \* history: the entry-label request made by the last step, if any
queuevars == << m_entryLabels, m_alreadyCompiledFunctions, m_functionsToCompile,
                compilations, labelled >>

VARIABLES
  m_externallyUsedYulFunctions,  \* names recorded by callYulFunction
  m_requestedYulFunctionsRan,    \* requestedYulFunctions was called
  m_namedTags,                   \* Assembly: name -> tag id
  yulRequests                    \* history: the requestedYulFunctions calls with their results
yulvars == << m_externallyUsedYulFunctions, m_requestedYulFunctionsRan, m_namedTags,
              yulRequests >>

VARIABLES
  m_solvers,              \* SMTPortfolio: what each solver answers to the query
  checked                 \* history: the SMTPortfolio::check calls with their results
smtvars == << m_solvers, checked >>

VARIABLES
  deposits                \* history: the adjustDeposit / setDeposit calls with their results
depositvars == << deposits >>

VARIABLES
  queriedItem,            \* SemanticInformation: the assembly item a pass asks about
  msizeImportant,         \* SemanticInformation: the _msizeImportant argument
  itemFacts,              \* history: the answers of the queries about the item
  instructionFacts        \* history: the answers of the queries about its instruction
classifiervars == << queriedItem, msizeImportant, itemFacts, instructionFacts >>

VARIABLES
  allocated               \* history: the newTag / newPushTag calls with their results
tagvars == << allocated >>

VARIABLES
  m_localVariables,       \* CompilerContext: declaration -> stack of offsets
  scoped                  \* history: the call on the local variables made by the last step, if any
localvars == << m_localVariables, scoped >>

furthervars == << classifiervars, tagvars, localvars >>

others == << passvars, queuevars, yulvars, smtvars, depositvars, furthervars >>

\* the variables of the code generator apart from the item sequence
contextRest == << m_deposit, m_usedTags, m_lowLevelFunctions,
                  m_lowLevelFunctionGenerationQueue, m_disable_rewrite, warnings, failed,
                  pc, cur, steps, requests, generated, hooklog, hookDepth, last, rewritten >>

\* The compilation context an operation works on.  m_is_building_user_asm is
\* set by the inline-assembly visitor around user assembly; it is an input of
\* the operation.  depth counts the active hook invocations on the call stack,
\* running names the helper whose generator is executing (history only).
Context(userAsm) ==
  [ m_items |-> m_items, m_deposit |-> m_deposit, m_usedTags |-> m_usedTags,
    m_lowLevelFunctions |-> m_lowLevelFunctions,
    m_lowLevelFunctionGenerationQueue |-> m_lowLevelFunctionGenerationQueue,
    m_disable_rewrite |-> m_disable_rewrite,
    m_is_building_user_asm |-> userAsm,
    warnings |-> warnings, failed |-> failed,
    requests |-> requests, hooklog |-> {}, depth |-> 0, hookDepth |-> 0,
    running |-> cur.name ]

NoEntry == [name |-> "", inArgs |-> 0, outArgs |-> 0, generator |-> [kind |-> "", id |-> ""]]

\* generator closures: the lambda of complexRewrite (it captures the Yul body)
\* and the closures of other call sites
RewriteGenerator(code) == [kind |-> "rewrite", id |-> code]
UserGenerator(g) == [kind |-> "user", id |-> g]

\* ------------------------------------------------------------ Assembly
\* Assembly::adjustDeposit
adjustDeposit_no_assert(c, adjustment) == [c EXCEPT !.m_deposit = @ + adjustment]

\* Assembly::adjustDeposit
adjustDeposit(c, adjustment) ==
  IF c.m_deposit + adjustment < 0
    THEN [c EXCEPT !.m_deposit = @ + adjustment, !.failed = TRUE]
    ELSE [c EXCEPT !.m_deposit = @ + adjustment]

\* Assembly::setDeposit
setDeposit(c, deposit) ==
  IF deposit < 0
    THEN [c EXCEPT !.m_deposit = deposit, !.failed = TRUE]
    ELSE [c EXCEPT !.m_deposit = deposit]

\* m_errorReporter.warning(code, location, message)
warning(c, code, instr) == [c EXCEPT !.warnings = Append(@, [code |-> code, instr |-> instr])]

\* The insertion step of Assembly::append: the deposit is updated and the item
\* is stored; an item that would drive the deposit negative is fatal.
insertItem(c, i) ==
  IF c.m_deposit + ItemDeposit(i) < 0
    THEN [c EXCEPT !.failed = TRUE]
    ELSE [c EXCEPT !.m_items = Append(@, i), !.m_deposit = @ + ItemDeposit(i)]

RECURSIVE append(_, _)
RECURSIVE appendAll(_, _)
RECURSIVE appendRange(_, _, _, _)
RECURSIVE appendCallback(_, _)


Max(a, b) == IF a >= b THEN a ELSE b

\* The(S) is the element of a one-element set.  An intermediate result x of a
\* computation is bound by  The({ rest(x) : x \in {first} }), so that it is
\* computed once; such chains read from the innermost bound outwards.
The(S) == CHOOSE x \in S : TRUE

\* Assembly::newTag / newPushTag: the id handed out and the advanced counter
newTag(c) == [c |-> [c EXCEPT !.m_usedTags = @ + 1], tag |-> c.m_usedTags]

\* CompilerContext::pushNewTag: m_asm->append(m_asm->newPushTag()).tag()
pushNewTag(c) ==
  The({ [c |-> append(t.c, PushTagItem(t.tag)), tag |-> t.tag] : t \in {newTag(c)} })

\* CompilerContext::appendJump
appendJump(c, jumpType) == append(c, JumpOp(jumpType))

\* CompilerContext::adjustStackOffset / setStackOffset
adjustStackOffset(c, adjustment) == adjustDeposit(c, adjustment)
setStackOffset(c, offset) == setDeposit(c, offset)

\* CompilerUtils::moveIntoStack(depth) and moveToStackTop(depth) for items of
\* size one: depth swap instructions, no net stack effect
RotateSwaps(n) ==
  CASE n = 0 -> << >>
    [] n = 1 -> << Op("SWAP1") >>
    [] n = 2 -> << Op("SWAP2"), Op("SWAP1") >>
    [] OTHER -> << Op("SWAP3"), Op("SWAP2"), Op("SWAP1") >>
moveIntoStack(c, n) == appendAll(c, RotateSwaps(n))
moveToStackTop(c, n) == appendAll(c, RotateSwaps(n))

\* CompilerContext::appendInlineAssembly: the Yul pipeline appends the code of
\* the block item by item through the assembly
appendInlineAssembly(c, code) == appendAll(c, InlineAssemblyItems(code))

\* ----------------------------------------------- low-level function registry
\* a queue that hands out the newest entry first
push_front(q, e) == << e >> \o q

\* std::queue push / front / pop
push(q, e) == Append(q, e)
front(q) == Head(q)
pop(q) == Tail(q)

\* lowLevelFunctionTag without the lookup: every request allocates a tag and
\* queues its generator
lowLevelFunctionTag_no_lookup(c, name, inArgs, outArgs, generator) ==
  [ c |-> [c EXCEPT
             !.m_usedTags = @ + 1,
             !.m_lowLevelFunctions = (name :> c.m_usedTags) @@ @,
             !.m_lowLevelFunctionGenerationQueue =
                Append(@, [name |-> name, inArgs |-> inArgs, outArgs |-> outArgs,
                           generator |-> generator])],
    tag |-> c.m_usedTags ]

\* lowLevelFunctionTag that queues the generator of a repeated request as well
lowLevelFunctionTag_requeue(c, name, inArgs, outArgs, generator) ==
  [ c |-> [c EXCEPT
             !.m_usedTags = IF name \in DOMAIN c.m_lowLevelFunctions THEN @ ELSE @ + 1,
             !.m_lowLevelFunctions = @ @@ (name :> c.m_usedTags),
             !.m_lowLevelFunctionGenerationQueue =
                Append(@, [name |-> name, inArgs |-> inArgs, outArgs |-> outArgs,
                           generator |-> generator])],
    tag |-> (c.m_lowLevelFunctions @@ (name :> c.m_usedTags))[name] ]

\* CompilerContext::lowLevelFunctionTag: the context it leaves and the tag it
\* returns
lowLevelFunctionTag(c, name, inArgs, outArgs, generator) ==
  IF name \notin DOMAIN c.m_lowLevelFunctions
    THEN
      [ c |-> [c EXCEPT
                 !.m_usedTags = @ + 1,
                 !.m_lowLevelFunctions = @ @@ (name :> c.m_usedTags),
                 !.m_lowLevelFunctionGenerationQueue =
                    push(@, [name |-> name, inArgs |-> inArgs, outArgs |-> outArgs,
                             generator |-> generator])],
        tag |-> c.m_usedTags ]
    ELSE [c |-> c, tag |-> c.m_lowLevelFunctions[name]]

\* what the history keeps of one lowLevelFunctionTag call: its arguments, the
\* tag returned, whether the name was known before, and whether the call left
\* the map and the queue as they were
RequestEntry(c, name, generator, r) ==
  [ name |-> name, generator |-> generator, tag |-> r.tag,
    known |-> name \in DOMAIN c.m_lowLevelFunctions,
    mapUnchanged |-> r.c.m_lowLevelFunctions = c.m_lowLevelFunctions,
    queueUnchanged |-> r.c.m_lowLevelFunctionGenerationQueue = c.m_lowLevelFunctionGenerationQueue,
    from |-> c.running ]

\* a lowLevelFunctionTag call, recorded in the history
requestTag(c, name, inArgs, outArgs, generator) ==
  The({ [ c |-> [r.c EXCEPT !.requests = Append(@, RequestEntry(c, name, generator, r))],
          tag |-> r.tag ]
        : r \in {lowLevelFunctionTag(c, name, inArgs, outArgs, generator)} })

\* CompilerContext::callLowLevelFunction:
\*   r = pushNewTag(); moveIntoStack(inArgs); f = lowLevelFunctionTag(...);
\*   *this << f; appendJump(IntoFunction); adjustStackOffset(out - 1 - in);
\*   *this << r.tag()
callLowLevelFunction(c, name, inArgs, outArgs, generator) ==
  The({ The({ The({ The({ The({ The({
    append(c4, TagItem(r.tag))
    : c4 \in {IF c3.failed THEN c3 ELSE adjustStackOffset(c3, outArgs - 1 - inArgs)} })
    : c3 \in {appendJump(c2, "IntoFunction")} })
    : c2 \in {append(f.c, PushTagItem(f.tag))} })
    : f \in {requestTag(c1, name, inArgs, outArgs, generator)} })
    : c1 \in {moveIntoStack(r.c, inArgs)} })
    : r \in {pushNewTag(c)} })

\* --------------------------------------------------------- rewrite policy
\* the generator lambda without the suspension of the hook
rewriteGeneratorBody_no_disable(c, code) == appendInlineAssembly(c, code)

\* the generator lambda without the statement that ends the suspension
rewriteGeneratorBody_no_enable(c, code) ==
  appendInlineAssembly([c EXCEPT !.m_disable_rewrite = TRUE], code)

\* the generator lambda complexRewrite hands to callLowLevelFunction:
\*   m_disable_rewrite = true; appendInlineAssembly(...); m_disable_rewrite = false
rewriteGeneratorBody(c, code) ==
  The({ IF c2.failed THEN c2 ELSE [c2 EXCEPT !.m_disable_rewrite = FALSE]
        : c2 \in {appendInlineAssembly([c EXCEPT !.m_disable_rewrite = TRUE], code)} })

\* the filler loop and the pop loop of complexRewrite
Repeat(i, n) == [k \in 1..Max(n, 0) |-> i]

\* complexRewrite that ignores optimize and always expands the block in place
complexRewrite_inline(c, function, in, out, code, optimize) ==
  The({ The({
    appendAll(c2, Repeat(Op("POP"), in - out))
    : c2 \in {appendInlineAssembly(c1, code)} })
    : c1 \in {appendAll(c, Repeat(Op("GAS"), out - in))} })

\* complexRewrite without the pop loop
complexRewrite_no_pop(c, function, in, out, code, optimize) ==
  The({
    IF optimize
      THEN callLowLevelFunction(c1, function, 0, 0, RewriteGenerator(code))
      ELSE appendInlineAssembly(c1, code)
    : c1 \in {appendAll(c, Repeat(Op("GAS"), out - in))} })

\* CompilerContext::complexRewrite: the filler loop, the helper call (or the
\* inline block when optimize is off), the pop loop
complexRewrite(c, function, in, out, code, optimize) ==
  The({ The({
    appendAll(c2, Repeat(Op("POP"), in - out))
    : c2 \in {IF optimize
                THEN callLowLevelFunction(c1, function, 0, 0, RewriteGenerator(code))
                ELSE appendInlineAssembly(c1, code)} })
    : c1 \in {appendAll(c, Repeat(Op("GAS"), out - in))} })

\* CompilerContext::simpleRewrite
simpleRewrite(c, function, in, out, optimize) ==
  complexRewrite(c, function, in, out, "simple", optimize)

\* the switch with ret left true in the case of the unimplemented opcodes
rewriteSwitch_forbidden_replaced(c, instr) ==
  CASE instr \in WarnedInstructions -> [c |-> warning(c, 1633, instr), ret |-> FALSE]
    [] instr \in ForbiddenInstructions -> [c |-> warning(c, 6388, instr), ret |-> TRUE]
    [] instr \in DOMAIN SimpleRewrites ->
         [c |-> simpleRewrite(c, SimpleRewrites[instr].function, SimpleRewrites[instr].in,
                              SimpleRewrites[instr].out, SimpleRewrites[instr].optimize),
          ret |-> TRUE]
    [] instr \in DOMAIN ComplexRewrites ->
         [c |-> complexRewrite(c, ComplexRewrites[instr].function, ComplexRewrites[instr].in,
                               ComplexRewrites[instr].out, ComplexRewrites[instr].code, TRUE),
          ret |-> TRUE]
    [] instr \in ReturndataInstructions ->
         [c |-> IF c.m_is_building_user_asm THEN warning(c, 7742, instr) ELSE c, ret |-> FALSE]
    [] OTHER -> [c |-> c, ret |-> FALSE]

\* the switch with ret left true in the case of BALANCE and SELFBALANCE
rewriteSwitch_warned_replaced(c, instr) ==
  CASE instr \in WarnedInstructions -> [c |-> warning(c, 1633, instr), ret |-> TRUE]
    [] instr \in ForbiddenInstructions -> [c |-> warning(c, 6388, instr), ret |-> FALSE]
    [] instr \in DOMAIN SimpleRewrites ->
         [c |-> simpleRewrite(c, SimpleRewrites[instr].function, SimpleRewrites[instr].in,
                              SimpleRewrites[instr].out, SimpleRewrites[instr].optimize),
          ret |-> TRUE]
    [] instr \in DOMAIN ComplexRewrites ->
         [c |-> complexRewrite(c, ComplexRewrites[instr].function, ComplexRewrites[instr].in,
                               ComplexRewrites[instr].out, ComplexRewrites[instr].code, TRUE),
          ret |-> TRUE]
    [] instr \in ReturndataInstructions ->
         [c |-> IF c.m_is_building_user_asm THEN warning(c, 7742, instr) ELSE c, ret |-> FALSE]
    [] OTHER -> [c |-> c, ret |-> FALSE]

\* the switch of appendCallback over the instruction of an operation item
rewriteSwitch(c, instr) ==
  CASE instr \in WarnedInstructions -> [c |-> warning(c, 1633, instr), ret |-> FALSE]
    [] instr \in ForbiddenInstructions -> [c |-> warning(c, 6388, instr), ret |-> FALSE]
    [] instr \in DOMAIN SimpleRewrites ->
         [c |-> simpleRewrite(c, SimpleRewrites[instr].function, SimpleRewrites[instr].in,
                              SimpleRewrites[instr].out, SimpleRewrites[instr].optimize),
          ret |-> TRUE]
    [] instr \in DOMAIN ComplexRewrites ->
         [c |-> complexRewrite(c, ComplexRewrites[instr].function, ComplexRewrites[instr].in,
                               ComplexRewrites[instr].out, ComplexRewrites[instr].code, TRUE),
          ret |-> TRUE]
    [] instr \in ReturndataInstructions ->
         [c |-> IF c.m_is_building_user_asm THEN warning(c, 7742, instr) ELSE c, ret |-> FALSE]
    [] OTHER -> [c |-> c, ret |-> FALSE]

\* the PushData check of appendCallback
jumpdestInConstant(c, i) ==
  IF i.type = "PushData" /\ i.data = 1 THEN warning(c, 7608, "") ELSE c

\* appendCallback without the early return of the suspended state
appendCallback_no_guard(c, i) ==
  The({ The({
    IF r.c.failed THEN r
    ELSE [c |-> [r.c EXCEPT !.m_disable_rewrite = FALSE, !.depth = @ - 1], ret |-> r.ret]
    : r \in {IF i.type = "Operation" THEN rewriteSwitch(c2, i.instr)
             ELSE [c |-> c2, ret |-> FALSE]} })
    : c2 \in {jumpdestInConstant([c EXCEPT !.m_disable_rewrite = TRUE, !.depth = @ + 1,
                                           !.hookDepth = Max(@, c.depth + 1)], i)} })

\* CompilerContext::appendCallback: the context it leaves and its result
appendCallback(c, i) ==
  IF c.m_disable_rewrite THEN [c |-> c, ret |-> FALSE]
  ELSE
    The({ The({
      IF r.c.failed THEN r
      ELSE [c |-> [r.c EXCEPT !.m_disable_rewrite = FALSE, !.depth = @ - 1], ret |-> r.ret]
      : r \in {IF i.type = "Operation" THEN rewriteSwitch(c2, i.instr)
               ELSE [c |-> c2, ret |-> FALSE]} })
      : c2 \in {jumpdestInConstant([c EXCEPT !.m_disable_rewrite = TRUE, !.depth = @ + 1,
                                             !.hookDepth = Max(@, c.depth + 1)], i)} })

\* what append records about one invocation of the hook
HookEntry(c, i, r, c2) ==
  [ type |-> i.type, instr |-> i.instr, suspended |-> c.m_disable_rewrite, ret |-> r.ret,
    warned |-> Len(r.c.warnings) # Len(c.warnings),
    requested |-> Len(r.c.requests) # Len(c.requests),
    disabledAfter |-> r.c.m_disable_rewrite,
    appended |-> c2.m_items = Append(c.m_items, i),
    aborted |-> c2.failed ]

\* Assembly::append with the callback installed: the hook runs first; when it
\* reports a replacement the item itself is not inserted.  Every invocation of
\* the hook is recorded in hooklog.
append(c, i) ==
  IF c.failed THEN c
  ELSE
    The({ The({
      [c2 EXCEPT !.hooklog = @ \cup {HookEntry(c, i, r, c2)}]
      : c2 \in {IF r.c.failed \/ r.ret THEN r.c ELSE insertItem(r.c, i)} })
      : r \in {appendCallback(c, i)} })

\* the items lo..hi of a sequence appended one after the other, in their
\* order.  The range is cut in two halves, the second appended to the result
\* of the first, so that the evaluation nests with the logarithm of the length.
appendRange(c, is, lo, hi) ==
  IF lo > hi THEN c
  ELSE IF lo = hi THEN append(c, is[lo])
  ELSE The({ appendRange(c1, is, (lo + hi) \div 2 + 1, hi)
             : c1 \in {appendRange(c, is, lo, (lo + hi) \div 2)} })

\* Assembly::operator<< for each item of a sequence
appendAll(c, is) == The({ appendRange(c, s, 1, Len(s)) : s \in {is} })

\* ---------------------------------------------------------------- actions
\* no optimise call has been made
PassInit == optimised = << >>

\* the function compilation queue after construction
QueueInit ==
  /\ m_entryLabels = << >>
  /\ m_alreadyCompiledFunctions = {}
  /\ m_functionsToCompile = << >>
  /\ compilations = << >>
  /\ labelled = [op |-> "none"]

\* the Yul function bookkeeping after construction
YulInit ==
  /\ m_externallyUsedYulFunctions = {}
  /\ m_requestedYulFunctionsRan = FALSE
  /\ m_namedTags = << >>
  /\ yulRequests = << >>

\* a portfolio of the one solver the constructor always adds, not yet queried
QuietSolvers == << "UNKNOWN" >>
PortfolioInit ==
  /\ m_solvers = QuietSolvers
  /\ checked = << >>

\* no deposit operation was called
DepositInit == deposits = << >>

\* no query was asked and no tag allocation was recorded
ClassifierInit ==
  /\ queriedItem = Op("STOP")
  /\ msizeImportant = FALSE
  /\ itemFacts = << >>
  /\ instructionFacts = << >>
TagInit == allocated = << >>
\* no local variable is bound
LocalInit ==
  /\ m_localVariables = << >>
  /\ scoped = [op |-> "none", status |-> "returned"]
FurtherInit == ClassifierInit /\ TagInit /\ LocalInit

\* the code generator after construction, apart from the item sequence
ContextRestInit ==
  /\ m_deposit = 0
  /\ m_usedTags = 1
  /\ m_lowLevelFunctions = << >>
  /\ m_lowLevelFunctionGenerationQueue = << >>
  /\ m_disable_rewrite = FALSE
  /\ warnings = << >>
  /\ failed = FALSE
  /\ pc = "main"
  /\ cur = NoEntry
  /\ steps = 0
  /\ requests = << >>
  /\ generated = << >>
  /\ hooklog = {}
  /\ hookDepth = 0
  /\ last = [op |-> "", item |-> PushItem(0), deposit |-> 0, nitems |-> 0, nwarnings |-> 0,
             nrequests |-> 0]
  /\ rewritten = << >>

Init ==
  /\ m_items = << >>
  /\ ContextRestInit
  /\ PassInit
  /\ QueueInit
  /\ YulInit
  /\ PortfolioInit
  /\ DepositInit
  /\ FurtherInit

\* the last operation: its name, its argument, and the deposit and the numbers
\* of items, diagnostics and helper requests it started from
Last(op, item) ==
  [ op |-> op, item |-> item, deposit |-> m_deposit, nitems |-> Len(m_items),
    nwarnings |-> Len(warnings), nrequests |-> Len(requests) ]

\* the hook invocation of the appended item itself reported a replacement
Replaced(c, i) ==
  \E e \in c.hooklog : ~e.suspended /\ e.ret /\ e.type = i.type /\ e.instr = i.instr

\* the context an operation leaves becomes the state
Store(c) ==
  /\ m_items' = c.m_items
  /\ m_deposit' = c.m_deposit
  /\ m_usedTags' = c.m_usedTags
  /\ m_lowLevelFunctions' = c.m_lowLevelFunctions
  /\ m_lowLevelFunctionGenerationQueue' = c.m_lowLevelFunctionGenerationQueue
  /\ m_disable_rewrite' = c.m_disable_rewrite
  /\ warnings' = c.warnings
  /\ failed' = c.failed
  /\ requests' = c.requests
  /\ hooklog' = c.hooklog
  /\ hookDepth' = c.hookDepth

\* opcodes the code generator (or a helper generator) appends
ClientInstructions ==
  RewrittenInstructions \cup ForbiddenInstructions \cup WarnedInstructions
    \cup ReturndataInstructions \cup {"POP", "ADD"}
ClientItems ==
  {Op(o) : o \in ClientInstructions} \cup {PushItem(0), PushDataItem(0), PushDataItem(1)}

\* the code generator or the running generator may act
Running == ~failed /\ pc \in {"main", "gen"} /\ steps < MaxSteps

\* CompilerContext::operator<< / Assembly::append of one item
AppendItem(i, userAsm) ==
  /\ Running
  /\ \E c \in {append(Context(userAsm), i)} :
       /\ Store(c)
       /\ rewritten' = IF Replaced(c, i) THEN Append(rewritten, i.instr) ELSE rewritten
  /\ steps' = steps + 1
  /\ last' = Last("append", i)
  /\ UNCHANGED << pc, cur, generated, others >>

\* CompilerContext::setStackOffset at a function entry
SetStackOffset(h) ==
  /\ Running /\ pc = "main"
  /\ \E c \in {setStackOffset(Context(FALSE), h)} : Store(c)
  /\ steps' = steps + 1
  /\ last' = Last("setStackOffset", PushItem(h))
  /\ UNCHANGED << pc, cur, generated, rewritten, others >>

\* a direct CompilerContext::lowLevelFunctionTag request
RequestTag(name, inArgs, outArgs, g) ==
  /\ Running
  /\ \E r \in {requestTag(Context(FALSE), name, inArgs, outArgs, UserGenerator(g))} :
       Store(r.c)
  /\ steps' = steps + 1
  /\ last' = Last("lowLevelFunctionTag", PushItem(0))
  /\ UNCHANGED << pc, cur, generated, rewritten, others >>

\* a CompilerContext::callLowLevelFunction request
CallFunction(name, inArgs, outArgs, g) ==
  /\ Running
  /\ \E c \in {callLowLevelFunction(Context(FALSE), name, inArgs, outArgs, UserGenerator(g))} :
       Store(c)
  /\ steps' = steps + 1
  /\ last' = Last("callLowLevelFunction", PushItem(0))
  /\ UNCHANGED << pc, cur, generated, rewritten, others >>

\* appendMissingLowLevelFunctions is called
EnterDrain ==
  /\ ~failed /\ pc = "main"
  /\ pc' = "drain"
  /\ UNCHANGED << m_items, m_deposit, m_usedTags, m_lowLevelFunctions,
                  m_lowLevelFunctionGenerationQueue, m_disable_rewrite, warnings, failed,
                  cur, steps, requests, generated, hooklog, hookDepth, last, rewritten,
                  others >>

\* the part of the loop body before generator(*this)
drainFront(c) ==
  The({ The({
    append(c2, TagItem(c2.m_lowLevelFunctions[e.name]))
    : c2 \in {setStackOffset([c EXCEPT !.m_lowLevelFunctionGenerationQueue = pop(@)],
                             e.inArgs + 1)} })
    : e \in {front(c.m_lowLevelFunctionGenerationQueue)} })

\* the end of the loop body without the check of the stack height
drainFinish_no_assert(c, e) ==
  The({ appendJump(c1, "OutOfFunction") : c1 \in {moveToStackTop(c, e.outArgs)} })

\* the part of the loop body after generator(*this)
drainFinish(c, e) ==
  The({ The({
    IF c2.failed \/ c2.m_deposit = e.outArgs THEN c2 ELSE [c2 EXCEPT !.failed = TRUE]
    : c2 \in {appendJump(c1, "OutOfFunction")} })
    : c1 \in {moveToStackTop(c, e.outArgs)} })

\* One iteration of the loop of appendMissingLowLevelFunctions.  The generator
\* of a rewrite helper is run at once; another generator runs step by step.
DrainNext ==
  /\ ~failed /\ pc = "drain"
  /\ m_lowLevelFunctionGenerationQueue # << >>
  /\ \E e \in {front(m_lowLevelFunctionGenerationQueue)} :
     \E c \in {drainFront(Context(FALSE))} :
        /\ generated' = Append(generated,
                               [ name |-> e.name, generator |-> e.generator,
                                 inArgs |-> e.inArgs, outArgs |-> e.outArgs,
                                 entryDeposit |-> c.m_deposit, entryItem |-> c.m_items[Len(c.m_items)] ])
        /\ last' = Last("drain", TagItem(m_lowLevelFunctions[e.name]))
        /\ IF e.generator.kind = "rewrite"
             THEN /\ \E c1 \in {rewriteGeneratorBody(c, e.generator.id)} :
                       \E c2 \in {drainFinish(c1, e)} : Store(c2)
                  /\ UNCHANGED << pc, cur >>
             ELSE /\ Store(c)
                  /\ pc' = "gen"
                  /\ cur' = e
        /\ UNCHANGED << steps, rewritten, others >>

\* the running generator returns
GeneratorReturn ==
  /\ ~failed /\ pc = "gen"
  /\ \E c \in {drainFinish(Context(FALSE), cur)} : Store(c)
  /\ pc' = "drain"
  /\ cur' = NoEntry
  /\ last' = Last("return", PushItem(0))
  /\ UNCHANGED << steps, generated, rewritten, others >>

\* the queue is empty: appendMissingLowLevelFunctions returns
LeaveDrain ==
  /\ ~failed /\ pc = "drain"
  /\ m_lowLevelFunctionGenerationQueue = << >>
  /\ pc' = "main"
  /\ UNCHANGED << m_items, m_deposit, m_usedTags, m_lowLevelFunctions,
                  m_lowLevelFunctionGenerationQueue, m_disable_rewrite, warnings, failed,
                  cur, steps, requests, generated, hooklog, hookDepth, last, rewritten,
                  others >>

Next ==
  \/ \E i \in ClientItems :
       \E userAsm \in (IF i.instr \in ReturndataInstructions THEN BOOLEAN ELSE {FALSE}) :
         AppendItem(i, userAsm)
  \/ \E h \in StackOffsets : SetStackOffset(h)
  \/ \E n \in UserNames, g \in UserGenerators :
       RequestTag(n, GeneratorArity[g][1], GeneratorArity[g][2], g)
  \/ \E n \in UserNames, g \in UserGenerators :
       CallFunction(n, GeneratorArity[g][1], GeneratorArity[g][2], g)
  \/ EnterDrain
  \/ DrainNext
  \/ GeneratorReturn
  \/ LeaveDrain

Spec == Init /\ [][Next]_vars

\* The operations that request helpers, by name or through the rewrite of an
\* opcode, and the drain.
DrainRequestNext ==
  \/ AppendItem(Op("CALLER"), FALSE)
  \/ \E n \in UserNames, g \in UserGenerators :
       RequestTag(n, GeneratorArity[g][1], GeneratorArity[g][2], g)
  \/ \E n \in UserNames, g \in UserGenerators :
       CallFunction(n, GeneratorArity[g][1], GeneratorArity[g][2], g)
  \/ EnterDrain
  \/ DrainNext
  \/ GeneratorReturn
  \/ LeaveDrain

\* The loop of appendMissingLowLevelFunctions goes on while the queue is not
\* empty, and a generator that was called returns.
DrainSpec ==
  Init /\ [][DrainRequestNext]_vars /\ WF_vars(DrainNext) /\ WF_vars(GeneratorReturn)

-----------------------------------------------------------------------------
\* Low-level function registry

\* the index of the first request for the name of request i
FirstRequest(i) ==
  CHOOSE j \in DOMAIN requests :
    /\ requests[j].name = requests[i].name
    /\ \A k \in 1..(j - 1) : requests[k].name # requests[i].name

\* the requested names, each once, in the order of their first requests
FirstRequested ==
  LET F[n \in 0..Len(requests)] ==
        IF n = 0 THEN << >>
        ELSE IF FirstRequest(n) = n THEN Append(F[n - 1], requests[n].name)
        ELSE F[n - 1]
  IN F[Len(requests)]

Names(q) == [k \in DOMAIN q |-> q[k].name]

\* the drain is not running, nothing is pending and nothing failed
Drained == pc = "main" /\ m_lowLevelFunctionGenerationQueue = << >> /\ ~failed

\* the positions of the entry tags of helpers in the item sequence, and the
\* names of the helpers in the order of these positions
EntryTagPositions ==
  { p \in DOMAIN m_items :
      /\ m_items[p].type = "Tag"
      /\ \E n \in DOMAIN m_lowLevelFunctions : m_lowLevelFunctions[n] = m_items[p].data }

\* C1: every request for a name returns the tag allocated by the first request
\* for that name, whenever it is made; requests for different names return
\* different tags; the map keeps that tag; and a request for a known name
\* leaves the name->tag map and the pending queue as they were.
C1_TagStability ==
  /\ \A i, j \in DOMAIN requests :
        (requests[i].name = requests[j].name) <=> (requests[i].tag = requests[j].tag)
  /\ \A i \in DOMAIN requests :
        /\ requests[i].name \in DOMAIN m_lowLevelFunctions
        /\ m_lowLevelFunctions[requests[i].name] = requests[FirstRequest(i)].tag
        /\ requests[i].known <=> FirstRequest(i) # i
        /\ requests[i].known => requests[i].mapUnchanged /\ requests[i].queueUnchanged
  /\ \A n1, n2 \in DOMAIN m_lowLevelFunctions :
        m_lowLevelFunctions[n1] = m_lowLevelFunctions[n2] => n1 = n2

\* a name is requested, its helper is drained, and the name is requested again
\* with another generator
C1_Witness ==
  /\ Len(requests) = 2 /\ Len(generated) = 1
  /\ requests[1].name = requests[2].name
  /\ requests[1].generator # requests[2].generator
  /\ requests[2].known /\ requests[2].tag = requests[1].tag
  /\ generated[1].name = requests[1].name
  /\ last.op \in {"lowLevelFunctionTag", "callLowLevelFunction"} /\ ~failed

\* C2: a generator is only ever invoked for the first request of its name and
\* at most once; and when the drain has run to completion, the generator of
\* the first request of every requested name has been invoked exactly once.
C2_ExactlyOnce ==
  /\ \A k \in DOMAIN generated :
        \E i \in DOMAIN requests :
          /\ FirstRequest(i) = i
          /\ requests[i].name = generated[k].name
          /\ requests[i].generator = generated[k].generator
  /\ \A k1, k2 \in DOMAIN generated : generated[k1].name = generated[k2].name => k1 = k2
  /\ Drained =>
        \A i \in DOMAIN requests :
          Cardinality({k \in DOMAIN generated :
                         /\ generated[k].name = requests[i].name
                         /\ generated[k].generator = requests[FirstRequest(i)].generator}) = 1

\* one name requested twice with different generators before the drain, which
\* then ran to completion
C2_Witness ==
  /\ Drained
  /\ Len(requests) = 2 /\ ~requests[1].known /\ requests[2].known
  /\ requests[1].generator # requests[2].generator
  /\ Len(generated) = 1 /\ generated[1].generator = requests[1].generator
  /\ last.op = "return"

LastGenerated == generated[Len(generated)]

\* C4: every helper taken from the queue starts at the height in-arity + 1
\* with its entry tag as the last item; when its generator has returned, the
\* compilation is aborted exactly if the height after the out-of-function jump
\* differs from the out-arity, and otherwise the height is the out-arity; a
\* pending helper has no entry tag in the output and nothing happens after an
\* abort.
C4_StackHeightCheck ==
  /\ \A k \in DOMAIN generated :
        /\ generated[k].entryDeposit = generated[k].inArgs + 1
        /\ generated[k].entryItem = TagItem(m_lowLevelFunctions[generated[k].name])
  /\ last.op = "return" =>
        /\ failed <=> (last.deposit - 1 # LastGenerated.outArgs)
        /\ ~failed => /\ m_deposit = LastGenerated.outArgs
                      /\ m_items[Len(m_items)] = JumpOp("OutOfFunction")
  /\ (last.op = "drain" /\ pc = "drain" /\ ~failed) => m_deposit = LastGenerated.outArgs
  /\ \A k \in DOMAIN m_lowLevelFunctionGenerationQueue :
        \A p \in DOMAIN m_items :
          m_items[p] # TagItem(m_lowLevelFunctions[m_lowLevelFunctionGenerationQueue[k].name])
  /\ failed => ~ENABLED Next

\* a generator left a wrong height: the compilation is aborted and the helper
\* queued behind it is never emitted
C4_Witness ==
  /\ failed /\ last.op = "return"
  /\ last.deposit - 1 # LastGenerated.outArgs
  /\ m_lowLevelFunctionGenerationQueue # << >>

\* C5: when the hook has replaced a rewritten opcode, the height after the
\* whole replacement minus the height before it is (results - arguments) of
\* the opcode: -6 for CALL, -5 for STATICCALL and DELEGATECALL, -2 for SSTORE
\* and REVERT, +1 for CALLER.
C5_NetStackEffect ==
  (last.op = "append" /\ last.item.type = "Operation"
     /\ last.item.instr \in RewrittenInstructions /\ ~failed) =>
    /\ rewritten # << >> /\ rewritten[Len(rewritten)] = last.item.instr
    /\ m_deposit - last.deposit =
         InstructionInfo[last.item.instr][2] - InstructionInfo[last.item.instr][1]
    /\ last.item.instr = "CALL" => m_deposit - last.deposit = -6
    /\ last.item.instr \in {"STATICCALL", "DELEGATECALL"} => m_deposit - last.deposit = -5
    /\ last.item.instr \in {"SSTORE", "REVERT"} => m_deposit - last.deposit = -2
    /\ last.item.instr = "CALLER" => m_deposit - last.deposit = 1

\* CALL has been replaced
C5_Witness ==
  /\ last.op = "append" /\ last.item = Op("CALL") /\ ~failed
  /\ last.deposit = 7 /\ m_deposit = 1
  /\ m_items[Len(m_items)] = Op("POP")

\* the arities and the optimize flag the switch passes for opcode o
RewriteArities(o) ==
  IF o \in DOMAIN SimpleRewrites
    THEN [in |-> SimpleRewrites[o].in, out |-> SimpleRewrites[o].out,
          optimize |-> SimpleRewrites[o].optimize, code |-> "simple"]
    ELSE [in |-> ComplexRewrites[o].in, out |-> ComplexRewrites[o].out,
          optimize |-> TRUE, code |-> ComplexRewrites[o].code]

\* the items the last operation appended
LastAppended == SubSeq(m_items, last.nitems + 1, Len(m_items))

\* the hook replaced the item of the last operation
LastReplaced ==
  /\ last.op = "append" /\ last.item.type = "Operation"
  /\ last.item.instr \in RewrittenInstructions
  /\ ~failed
  /\ \E e \in hooklog : ~e.suspended /\ e.ret /\ e.instr = last.item.instr

\* s is the call of helper function through callLowLevelFunction(function, 0, 0):
\* return label pushed, entry tag pushed, jump into the function, return label
IsHelperCall(s, function) ==
  /\ Len(s) = 4
  /\ s[1].type = "PushTag"
  /\ function \in DOMAIN m_lowLevelFunctions
  /\ s[2] = PushTagItem(m_lowLevelFunctions[function])
  /\ s[3] = JumpOp("IntoFunction")
  /\ s[4] = TagItem(s[1].data)

\* C25: a replacement with arities (in, out) consists of exactly
\* max(0, out - in) filler items, then the helper call (the block itself when
\* optimize is off), then exactly max(0, in - out) POP items, never fillers
\* and POPs together; the filler and POP items pass the suspended hook and are
\* appended as they are.
C25_PaddingAndPopping ==
  LastReplaced =>
    \E r \in {RewriteArities(last.item.instr)} :
      \E fillers \in {Max(0, r.out - r.in)}, pops \in {Max(0, r.in - r.out)} :
        /\ fillers = 0 \/ pops = 0
        /\ Len(LastAppended) >= fillers + pops
        /\ SubSeq(LastAppended, 1, fillers) = [k \in 1..fillers |-> Op("GAS")]
        /\ SubSeq(LastAppended, Len(LastAppended) - pops + 1, Len(LastAppended))
             = [k \in 1..pops |-> Op("POP")]
        /\ \E call \in {SubSeq(LastAppended, fillers + 1, Len(LastAppended) - pops)} :
             IF r.optimize THEN IsHelperCall(call, RewriteFunction(last.item.instr))
             ELSE call = InlineAssemblyItems(r.code)
        /\ \A e \in hooklog :
             (e.type = "Operation" /\ e.instr \in {"GAS", "POP"}) =>
               e.suspended /\ ~e.ret /\ e.appended

\* EXTCODECOPY has been replaced: no filler, the helper call, four POP items
C25_Witness ==
  /\ LastReplaced /\ last.item = Op("EXTCODECOPY")
  /\ Len(LastAppended) = 8
  /\ \E e \in hooklog : e.instr = "POP" /\ e.suspended /\ e.appended

-----------------------------------------------------------------------------
\* Instruction rewrite policy

\* how often the hook has replaced opcode o
Appended(o) == Cardinality({k \in DOMAIN rewritten : rewritten[k] = o})

\* the entry tags of the helper of opcode o in the output, the generator runs
\* for it, and the call sites that jump into it
Bodies(o) ==
  IF RewriteFunction(o) \notin DOMAIN m_lowLevelFunctions THEN {}
  ELSE {p \in DOMAIN m_items : m_items[p] = TagItem(m_lowLevelFunctions[RewriteFunction(o)])}

Generations(o) == {k \in DOMAIN generated : generated[k].name = RewriteFunction(o)}

CallSites(o) ==
  IF RewriteFunction(o) \notin DOMAIN m_lowLevelFunctions THEN {}
  ELSE {p \in DOMAIN m_items :
          /\ m_items[p] = PushTagItem(m_lowLevelFunctions[RewriteFunction(o)])
          /\ p < Len(m_items)
          /\ m_items[p + 1] = JumpOp("IntoFunction")}

OneHelperBody(o) ==
  (Drained /\ Appended(o) >= 1) =>
    /\ Cardinality(Bodies(o)) = 1
    /\ Cardinality(Generations(o)) = 1
    /\ Cardinality(CallSites(o)) = Appended(o)

\* C6 as stated: every rewritten opcode that was replaced N >= 1 times has
\* exactly one helper body in the drained output and N call sites that jump
\* to its entry tag.
C6_Original == \A o \in RewrittenInstructions : OneHelperBody(o)

\* C6: every rewritten opcode other than ADDRESS that was replaced N >= 1
\* times has exactly one helper body in the drained output and N call sites
\* that jump to its entry tag; ADDRESS is expanded in place at every site and
\* never gets a helper.
C6_OneHelperBody ==
  /\ \A o \in RewrittenInstructions \ {"ADDRESS"} : OneHelperBody(o)
  /\ RewriteFunction("ADDRESS") \notin DOMAIN m_lowLevelFunctions
  /\ \A i \in DOMAIN requests : requests[i].name # RewriteFunction("ADDRESS")

\* CALLER replaced twice, then the drain
C6_Witness ==
  /\ Drained /\ last.op = "drain"
  /\ Appended("CALLER") = 2
  /\ Cardinality(Bodies("CALLER")) = 1 /\ Cardinality(CallSites("CALLER")) = 2

\* C7: an invocation of the hook in the suspended state returns false, records
\* no diagnostic, requests no helper and leaves the hook suspended, and its
\* item is appended unchanged unless the append aborts the compilation; no
\* rewrite runs inside another.
C7_NoRecursiveRewriting ==
  /\ \A e \in hooklog :
        e.suspended =>
          /\ ~e.ret /\ ~e.warned /\ ~e.requested /\ e.disabledAfter
          /\ e.appended \/ e.aborted
  /\ hookDepth <= 1
  /\ ~failed => ~m_disable_rewrite

\* an opcode that the active hook rewrites went through the suspended hook
C7_Witness ==
  /\ ~failed
  /\ \E e \in hooklog :
        /\ e.suspended /\ e.type = "Operation" /\ e.instr \in RewrittenInstructions
        /\ e.appended /\ ~e.ret /\ ~e.requested /\ e.disabledAfter

\* the items of the body of the helper generated last
HelperBody(code) ==
  << LastGenerated.entryItem >> \o InlineAssemblyItems(code) \o << JumpOp("OutOfFunction") >>

\* C8: the body of a helper of the rewrite policy is emitted as written: every
\* opcode of it that the active hook rewrites goes through the suspended hook
\* and is appended unchanged, and generating the body requests no helper.
C8_HelperBodyUnrewritten ==
  (last.op = "drain" /\ LastGenerated.generator.kind = "rewrite") =>
    /\ ~failed
    /\ Len(m_items) = last.nitems + Len(HelperBody(LastGenerated.generator.id))
    /\ SubSeq(m_items, last.nitems + 1, Len(m_items)) = HelperBody(LastGenerated.generator.id)
    /\ Len(requests) = last.nrequests
    /\ \A e \in hooklog :
          /\ ~e.ret /\ ~e.requested
          /\ (e.type = "Operation" /\ e.instr \in RewrittenInstructions) =>
                e.suspended /\ e.appended

\* the body of the helper of CALL, which holds CALL and CALLER
C8_Witness ==
  /\ last.op = "drain" /\ LastGenerated.generator = RewriteGenerator("callYUL")
  /\ \E p, q \in (last.nitems + 1)..Len(m_items) :
        m_items[p] = Op("CALL") /\ m_items[q] = Op("CALLER")
  /\ Len(requests) = last.nrequests

\* no helper has two bodies, and no more bodies exist than names
OneBodyPerName ==
  /\ \A i \in DOMAIN generated, j \in DOMAIN generated :
       i # j => generated[i].name # generated[j].name
  /\ Len(generated) <= Cardinality(DOMAIN m_lowLevelFunctions)

\* the loop of the drain stands at its condition with an empty queue
QueueDrained ==
  pc = "drain" /\ m_lowLevelFunctionGenerationQueue = << >> /\ ~failed

\* C37: whatever helpers the generators request, their own names and names
\* already generated included, a started drain reaches an empty queue (or the
\* compilation is aborted), with at most one body emitted per name.
C37_DrainTerminates ==
  (pc = "drain") ~> (failed \/ (QueueDrained /\ OneBodyPerName))

\* the drain ended after two bodies, the second one requested by the
\* generator of the first
C37_Witness ==
  /\ QueueDrained /\ OneBodyPerName
  /\ Len(generated) = 2 /\ Len(requests) = 2
  /\ requests[2].from = generated[1].name
  /\ requests[2].name = generated[2].name

\* the helper generated by the last operation belongs to the rewrite policy
RewriteHelperGenerated ==
  last.op = "drain" /\ ~failed /\ LastGenerated.generator.kind = "rewrite"

\* C34: a hook invocation that starts in the active state and returns leaves
\* the hook active, whatever the item and the outcome; the generator of a
\* rewrite helper leaves the hook active, so that the jump out of the helper
\* meets the active hook; the hook is suspended only inside a hook invocation
\* or inside the body of a rewrite helper, never between operations.
C34_HookStateRestored ==
  /\ \A e \in hooklog : (~e.suspended /\ ~e.aborted) => ~e.disabledAfter
  /\ RewriteHelperGenerated =>
       /\ ~m_disable_rewrite
       /\ \E e \in hooklog : e.instr = "JUMP" /\ ~e.suspended /\ ~e.disabledAfter
       /\ \A e \in hooklog : e.instr = "JUMP" => ~e.suspended
  /\ \A e \in hooklog : e.suspended => (hookDepth >= 1 \/ RewriteHelperGenerated)
  /\ ~failed => ~m_disable_rewrite

\* CALL was replaced: the invocation for CALL started active, suspended the
\* hook for the items of the replacement and left it active
C34_Witness ==
  /\ last.op = "append" /\ last.item = Op("CALL") /\ ~failed
  /\ \E e \in hooklog : e.instr = "CALL" /\ ~e.suspended /\ e.ret /\ ~e.disabledAfter
  /\ \E e \in hooklog : e.instr = "POP" /\ e.suspended /\ e.disabledAfter
  /\ ~m_disable_rewrite

\* an unimplemented opcode has just been appended
ForbiddenAppended ==
  last.op = "append" /\ last.item.type = "Operation" /\ last.item.instr \in ForbiddenInstructions

WarnedAppended ==
  last.op = "append" /\ last.item.type = "Operation" /\ last.item.instr \in WarnedInstructions

\* C10: appending BALANCE or SELFBALANCE records exactly one diagnostic (1633,
\* naming the opcode), the hook reports that it did not replace the item, the
\* opcode itself is the one item added, and no helper is requested.
C10_WarnAndPassThrough ==
  WarnedAppended =>
    /\ Len(warnings) = last.nwarnings + 1
    /\ warnings[Len(warnings)] = [code |-> 1633, instr |-> last.item.instr]
    /\ hooklog # {}
    /\ \A e \in hooklog : ~e.suspended /\ ~e.ret /\ ~e.requested /\ e.instr = last.item.instr
    /\ Len(requests) = last.nrequests
    /\ ~failed
    /\ Len(m_items) = last.nitems + 1 /\ m_items[Len(m_items)] = last.item

\* BALANCE is in the output after its diagnostic
C10_Witness ==
  /\ WarnedAppended /\ last.item.instr = "BALANCE"
  /\ m_items[Len(m_items)] = Op("BALANCE")
  /\ Len(warnings) = 2 /\ last.nwarnings = 1

-----------------------------------------------------------------------------
\* JumpdestRemover (dead-label eliminator)

\* The data of a Tag or PushTag item is (sub-assembly id + 1) * 2^64 + tag id;
\* the model keeps the encoding with machine words of 4 bits.
SubIdShift == 2^4

\* numeric_limits<size_t>::max(), the owner of a local tag
MaxSizeT == SubIdShift - 1

\* a PushTag and a Tag that name tag t of sub-assembly sub
ForeignPushTagItem(sub, t) == PushTagItem((sub + 1) * SubIdShift + t)
ForeignTagItem(sub, t) == TagItem((sub + 1) * SubIdShift + t)

\* the offset the scan looks for behind PC, and the distance of the item whose
\* tag it marks as referenced
KallOffset == 29
TagDistance == 18

\* what a read behind the end of the vector yields when it faults
Fault == Item("OutOfRange", "", 0, "Ordinary")

\* _items[k] for the 1-based position k; a position behind the end yields
\* whatever the memory there holds
at(items, k, junk) == IF k \in DOMAIN items THEN items[k] ELSE junk

\* AssemblyItem::data.  An Operation has no data: the accessor asserts in a
\* build that checks (strict) and dereferences a null pointer otherwise.
data(i, strict) ==
  IF i = Fault THEN [status |-> "crash", value |-> 0]
  ELSE IF i.type = "Operation"
    THEN [status |-> IF strict THEN "Exception" ELSE "crash", value |-> 0]
  ELSE [status |-> "ok", value |-> i.data]

\* AssemblyItem::splitForeignPushTag: (sub-assembly id, tag id).  On an item
\* that is neither Tag nor PushTag it asserts in a build that checks and
\* splits the data of the item otherwise.
splitForeignPushTag(i, strict) ==
  IF i = Fault THEN [status |-> "crash", first |-> 0, second |-> 0]
  ELSE IF i.type \notin {"PushTag", "Tag"} /\ strict
    THEN [status |-> "Exception", first |-> 0, second |-> 0]
  ELSE IF data(i, strict).status # "ok"
    THEN [status |-> data(i, strict).status, first |-> 0, second |-> 0]
  ELSE [ status |-> "ok",
         first |-> ((i.data \div SubIdShift) - 1) % SubIdShift,
         second |-> i.data % SubIdShift ]

\* the result of the scan so far: the tags found, or the way the scan ended
Found(tags) == [status |-> "ok", tags |-> tags]
Ended(status) == [status |-> status, tags |-> {}]

\* the PushTag branch that takes the tag of every PushTag, whoever owns it
scanPushTag_any_owner(r, item, subId, strict) ==
  IF item.type = "PushTag"
    THEN Found(r.tags \cup {splitForeignPushTag(item, strict).second})
    ELSE r

\* the PushTag branch of the loop body of referencedTags
scanPushTag(r, item, subId, strict) ==
  IF item.type = "PushTag" /\ splitForeignPushTag(item, strict).first = subId
    THEN Found(r.tags \cup {splitForeignPushTag(item, strict).second})
    ELSE r

\* the PC branch of the loop body of referencedTags: _items[i+1].data() is
\* compared with 29, the tag of _items[i+18] is inserted, _items[i+29] is
\* printed
scanPC(r, items, k, strict, junk) ==
  IF ~(items[k].type = "Operation" /\ items[k].instr = "PC") THEN r
  ELSE IF data(at(items, k + 1, junk.next), strict).status # "ok"
    THEN Ended(data(at(items, k + 1, junk.next), strict).status)
  ELSE IF data(at(items, k + 1, junk.next), strict).value # KallOffset THEN r
  ELSE IF splitForeignPushTag(at(items, k + TagDistance, junk.target), strict).status # "ok"
    THEN Ended(splitForeignPushTag(at(items, k + TagDistance, junk.target), strict).status)
  ELSE IF at(items, k + KallOffset, junk.shown) = Fault THEN Ended("crash")
  ELSE Found(r.tags \cup
               {splitForeignPushTag(at(items, k + TagDistance, junk.target), strict).second})

\* the loop of referencedTags over the first k items
RECURSIVE scan(_, _, _, _, _)
scan(items, k, subId, strict, junk) ==
  IF k = 0 THEN Found({})
  ELSE The({ IF r.status # "ok" THEN r
             ELSE scanPC(scanPushTag(r, items[k], subId, strict), items, k, strict, junk)
             : r \in {scan(items, k - 1, subId, strict, junk)} })

\* the loop of referencedTags without the PC branch
RECURSIVE scan_no_idiom(_, _, _, _, _)
scan_no_idiom(items, k, subId, strict, junk) ==
  IF k = 0 THEN Found({})
  ELSE scanPushTag(scan_no_idiom(items, k - 1, subId, strict, junk), items[k], subId, strict)

\* referencedTags without the PC branch
referencedTags_no_idiom(items, subId, strict, junk) ==
  scan_no_idiom(items, Len(items), subId, strict, junk)

\* JumpdestRemover::referencedTags
referencedTags(items, subId, strict, junk) == scan(items, Len(items), subId, strict, junk)

\* the predicate of remove_if: the Tag item is not referenced
unreferenced(item, references, strict) ==
  item.type = "Tag" /\ splitForeignPushTag(item, strict).second \notin references

\* the assertion in the predicate of remove_if fails for some item
subAssemblyTagUsedAsLabel(items, strict) ==
  \E k \in DOMAIN items :
    items[k].type = "Tag" /\ splitForeignPushTag(items[k], strict).first # MaxSizeT

\* the items remove_if and erase leave
removeUnreferenced(items, references, strict) ==
  SelectSeq(items, LAMBDA item : ~unreferenced(item, references, strict))

\* what a call ended with: it returned value, or it threw or crashed
Returned(items, value) == [status |-> "returned", value |-> value, items |-> items]
Thrown(items, status) == [status |-> status, value |-> FALSE, items |-> items]

\* optimise that forgets the tags referenced from outside
optimise_no_outside(items, tagsReferencedFromOutside, strict, junk) ==
  The({
    IF r.status # "ok" THEN Thrown(items, r.status)
    ELSE IF subAssemblyTagUsedAsLabel(items, strict) THEN Thrown(items, "OptimizerException")
    ELSE The({ Returned(left, Len(left) # Len(items))
               : left \in {removeUnreferenced(items, r.tags, strict)} })
    : r \in {referencedTags(items, MaxSizeT, strict, junk)} })

\* optimise that reports a change whenever some tag is referenced
optimise_wrong_signal(items, tagsReferencedFromOutside, strict, junk) ==
  The({
    IF r.status # "ok" THEN Thrown(items, r.status)
    ELSE IF subAssemblyTagUsedAsLabel(items, strict) THEN Thrown(items, "OptimizerException")
    ELSE Returned(removeUnreferenced(items, r.tags \cup tagsReferencedFromOutside, strict),
                  r.tags \cup tagsReferencedFromOutside # {})
    : r \in {referencedTags(items, MaxSizeT, strict, junk)} })

\* optimise without the assertion on the owner of a label
optimise_no_assert(items, tagsReferencedFromOutside, strict, junk) ==
  The({
    IF r.status # "ok" THEN Thrown(items, r.status)
    ELSE The({ Returned(left, Len(left) # Len(items))
               : left \in {removeUnreferenced(items, r.tags \cup tagsReferencedFromOutside,
                                              strict)} })
    : r \in {referencedTags(items, MaxSizeT, strict, junk)} })

\* JumpdestRemover::optimise.  The items a throwing call leaves are not used.
optimise(items, tagsReferencedFromOutside, strict, junk) ==
  The({
    IF r.status # "ok" THEN Thrown(items, r.status)
    ELSE IF subAssemblyTagUsedAsLabel(items, strict) THEN Thrown(items, "OptimizerException")
    ELSE The({ Returned(left, Len(left) # Len(items))
               : left \in {removeUnreferenced(items, r.tags \cup tagsReferencedFromOutside,
                                              strict)} })
    : r \in {referencedTags(items, MaxSizeT, strict, junk)} })

\* The item sequences the pass is run on: a head of up to three items, a gap
\* of plain operations, a tail of up to two items and a trailer of plain
\* operations.  The paddings put the first tail item 18 positions behind a PC
\* at the start, and the end 29 positions behind it or before.
HeadItems ==
  { Op("PC"), PushItem(KallOffset), TagItem(1), PushTagItem(1), ForeignTagItem(0, 1) }
TailItems == { TagItem(2), PushTagItem(3), ForeignPushTagItem(0, 2), PushItem(2) }
HeadLengths == 0..3
TailLengths == 0..2
Paddings == { <<0, 0>>, <<15, 0>>, <<15, 11>> }
SeqsOf(S, lengths) == UNION { [1..n -> S] : n \in lengths }

ItemSequences ==
  { h \o Repeat(Op("DUP1"), p[1]) \o t \o Repeat(Op("DUP1"), p[2]) :
      h \in SeqsOf(HeadItems, HeadLengths), t \in SeqsOf(TailItems, TailLengths),
      p \in Paddings }

\* the tag sets a caller passes, and the calls made on one sequence
OutsideSets == SUBSET {1, 2}
Runs == {1, 2}

\* what the three reads of the PC branch find behind the end of the vector
JunkReads ==
  { [next |-> Fault, target |-> Fault, shown |-> Fault],
    [next |-> PushItem(KallOffset), target |-> TagItem(2), shown |-> Op("DUP1")],
    [next |-> PushItem(2), target |-> TagItem(1), shown |-> Op("DUP1")] }

PassSpecInit ==
  /\ m_items \in ItemSequences
  /\ ContextRestInit
  /\ PassInit
  /\ QueueInit
  /\ YulInit
  /\ PortfolioInit
  /\ DepositInit
  /\ FurtherInit

\* one call of optimise; a repeated call passes the same outside set
Optimise(outside, strict, junk) ==
  /\ Len(optimised) + 1 \in Runs
  /\ optimised # << >> =>
       /\ optimised[Len(optimised)].status = "returned"
       /\ optimised[Len(optimised)].outside = outside
  /\ \E r \in {optimise(m_items, outside, strict, junk)} :
       /\ m_items' = r.items
       /\ optimised' = Append(optimised,
                              [ before |-> m_items, outside |-> outside,
                                status |-> r.status, value |-> r.value,
                                after |-> r.items ])
  /\ UNCHANGED << contextRest, queuevars, yulvars, smtvars, depositvars, furthervars >>

PassNext ==
  \E outside \in OutsideSets, strict \in BOOLEAN, junk \in JunkReads :
    Optimise(outside, strict, junk)

allvars == << vars, others >>

PassSpec == PassSpecInit /\ [][PassNext]_allvars

\* the calls of optimise that returned
ReturnedCalls == {n \in DOMAIN optimised : optimised[n].status = "returned"}

\* the tag ids that same-scope PushTag items of a sequence name
PushTagReferences(items) ==
  { items[k].data : k \in {j \in DOMAIN items : items[j].type = "PushTag"
                                                 /\ items[j].data < SubIdShift} }

\* the positions of a PC that is followed by a push of 29, and the tag ids
\* carried by the items 18 positions behind them
IdiomPositions(items) ==
  { k \in DOMAIN items : /\ items[k] = Op("PC")
                         /\ k + 1 \in DOMAIN items
                         /\ items[k + 1] = PushItem(KallOffset) }
IdiomReferences(items) ==
  { items[k + TagDistance].data % SubIdShift :
      k \in {j \in IdiomPositions(items) : j + TagDistance \in DOMAIN items} }

\* every read of the scan is inside the sequence
ReadsInside(items) ==
  /\ \A k \in DOMAIN items : items[k] = Op("PC") => k + 1 \in DOMAIN items
  /\ \A k \in IdiomPositions(items) : k + KallOffset \in DOMAIN items

\* the items of a sequence without the Tag items whose id is not in live
Survivors(items, live) ==
  SelectSeq(items, LAMBDA item : item.type # "Tag" \/ item.data \in live)

C12_Idempotent ==
  (Len(optimised) = 2) =>
    /\ optimised[2].status = "returned"
    /\ optimised[2].value = FALSE
    /\ optimised[2].after = optimised[2].before

\* C13: a Tag that stands 18 positions behind a PC followed by a push of 29
\* is in the sequence after every call of optimise that returns, also when no
\* PushTag and no outside set names it.
C13_IdiomLabelsLive ==
  \A n \in ReturnedCalls :
    \A k \in IdiomPositions(optimised[n].before) :
      (k + TagDistance \in DOMAIN optimised[n].before
         /\ optimised[n].before[k + TagDistance].type = "Tag") =>
        \E j \in DOMAIN optimised[n].after :
          /\ optimised[n].after[j] = optimised[n].before[k + TagDistance]
          /\ j <= k + TagDistance
          /\ j >= k

\* a label that only the idiom names survived a call that deleted another
C13_Witness ==
  /\ 1 \in ReturnedCalls /\ optimised[1].outside = {} /\ optimised[1].value
  /\ optimised[1].before[1] = Op("PC")
  /\ 1 \in IdiomPositions(optimised[1].before)
  /\ Len(optimised[1].before) > TagDistance
  /\ optimised[1].before[1 + TagDistance] = TagItem(2)
  /\ 2 \notin PushTagReferences(optimised[1].before)
  /\ \E j \in DOMAIN optimised[1].after : optimised[1].after[j] = TagItem(2)

\* the number of Tag items of a sequence
Tags(items) == Cardinality({k \in DOMAIN items : items[k].type = "Tag"})

\* C14: a call of optimise that returns yields true exactly if it deleted a
\* Tag item, and false exactly if it left the sequence as it was.
C14_ResultSignal ==
  \A n \in ReturnedCalls :
    /\ optimised[n].value <=> Tags(optimised[n].after) < Tags(optimised[n].before)
    /\ ~optimised[n].value <=> optimised[n].after = optimised[n].before

\* a call that deleted a label returned true and the next call returned false
C14_Witness ==
  /\ ReturnedCalls = {1, 2}
  /\ optimised[1].value /\ Tags(optimised[1].after) < Tags(optimised[1].before)
  /\ ~optimised[2].value /\ optimised[2].after = optimised[2].before
  /\ Tags(optimised[2].before) > 0

\* a sequence holds a Tag item of a sub-assembly
HasForeignLabel(items) ==
  \E k \in DOMAIN items : items[k].type = "Tag" /\ items[k].data >= SubIdShift

\* C15 as stated: a call of optimise on a sequence with a Tag item of a
\* sub-assembly ends with an OptimizerException.
C15_ForeignLabelFatal ==
  \A n \in DOMAIN optimised :
    HasForeignLabel(optimised[n].before) => optimised[n].status = "OptimizerException"

\* the tag parts of the PushTag items of a sequence that another
\* (sub-)assembly owns
ForeignReferences(items) ==
  { items[k].data % SubIdShift :
      k \in {j \in DOMAIN items : items[j].type = "PushTag"
                                     /\ items[j].data >= SubIdShift} }

\* a sequence holds the local Tag item with id t
HasLabel(items, t) == \E k \in DOMAIN items : items[k] = TagItem(t)

\* the local labels that only a foreign PushTag names
OnlyForeignNamed(call) ==
  { t \in ForeignReferences(call.before) :
      /\ HasLabel(call.before, t)
      /\ t \notin PushTagReferences(call.before)
      /\ t \notin call.outside }

readsOfPC(items, k, strict, junk) ==
  IF ~(items[k].type = "Operation" /\ items[k].instr = "PC") THEN {}
  ELSE IF data(at(items, k + 1, junk.next), strict).status # "ok" THEN {k + 1}
  ELSE IF data(at(items, k + 1, junk.next), strict).value # KallOffset THEN {k + 1}
  ELSE IF splitForeignPushTag(at(items, k + TagDistance, junk.target), strict).status # "ok"
    THEN {k + 1, k + TagDistance}
  ELSE {k + 1, k + TagDistance, k + KallOffset}

\* the positions referencedTags reads: the loop reads _items[i] and what the
\* PC branch reads, for every i it gets to
positionsRead(items, strict, junk) ==
  UNION { {k} \cup readsOfPC(items, k, strict, junk) :
            k \in {j \in DOMAIN items : scan(items, j - 1, MaxSizeT, strict, junk).status = "ok"} }

\* C35 as stated: in every call of optimise, whatever the build and whatever
\* the memory behind the vector holds, referencedTags reads only positions
\* of the sequence.
C35_ScanStaysInside ==
  \A n \in DOMAIN optimised :
    \A strict \in BOOLEAN, junk \in JunkReads :
      positionsRead(optimised[n].before, strict, junk) \subseteq DOMAIN optimised[n].before

\* ------------------------------------------------ function compilation queue
Declarations == {"f", "g", "h"}
nullptr == "nullptr"
MaxCompilations == 6

\* the FunctionCompilationQueue object
FunctionCompilationQueue ==
  [ m_entryLabels |-> m_entryLabels,
    m_alreadyCompiledFunctions |-> m_alreadyCompiledFunctions,
    m_functionsToCompile |-> m_functionsToCompile ]

\* entryLabel that queues the declaration at every request
entryLabel_requeue(q, c, declaration) ==
  IF declaration \in DOMAIN q.m_entryLabels
    THEN [q |-> [q EXCEPT !.m_functionsToCompile = push(@, declaration)],
          c |-> c, tag |-> q.m_entryLabels[declaration]]
    ELSE The({ [ q |-> [q EXCEPT !.m_entryLabels = (declaration :> t.tag) @@ @,
                                  !.m_functionsToCompile = push(@, declaration)],
                 c |-> t.c,
                 tag |-> t.tag ]
               : t \in {newTag(c)} })

\* FunctionCompilationQueue::entryLabel: the tag of the declaration, allocated
\* and queued at the first request
entryLabel(q, c, declaration) ==
  IF declaration \in DOMAIN q.m_entryLabels
    THEN [q |-> q, c |-> c, tag |-> q.m_entryLabels[declaration]]
    ELSE The({ [ q |-> [q EXCEPT !.m_entryLabels = (declaration :> t.tag) @@ @,
                                  !.m_functionsToCompile = push(@, declaration)],
                 c |-> t.c,
                 tag |-> t.tag ]
               : t \in {newTag(c)} })

\* FunctionCompilationQueue::entryLabelIfExists (0 stands for the undefined item)
entryLabelIfExists(q, declaration) ==
  IF declaration \in DOMAIN q.m_entryLabels THEN q.m_entryLabels[declaration] ELSE 0

\* nextFunctionToCompile that hands out the front entry whatever its state
nextFunctionToCompile_no_skip(q) ==
  IF q.m_functionsToCompile = << >>
    THEN [q |-> q, declaration |-> nullptr]
    ELSE [q |-> q, declaration |-> front(q.m_functionsToCompile)]

\* FunctionCompilationQueue::nextFunctionToCompile: entries of compiled
\* declarations are dropped from the front, the first other entry is returned
RECURSIVE nextFunctionToCompile(_)
nextFunctionToCompile(q) ==
  IF q.m_functionsToCompile = << >>
    THEN [q |-> q, declaration |-> nullptr]
    ELSE IF front(q.m_functionsToCompile) \in q.m_alreadyCompiledFunctions
      THEN nextFunctionToCompile([q EXCEPT !.m_functionsToCompile = pop(@)])
      ELSE [q |-> q, declaration |-> front(q.m_functionsToCompile)]

\* startFunction that marks the declaration only when it was at the front
startFunction_front_only(q, function) ==
  IF q.m_functionsToCompile # << >> /\ front(q.m_functionsToCompile) = function
    THEN [q EXCEPT !.m_functionsToCompile = pop(@),
                   !.m_alreadyCompiledFunctions = @ \cup {function}]
    ELSE q

\* startFunction that pops the front entry whatever it is
startFunction_pops_always(q, function) ==
  [q EXCEPT !.m_functionsToCompile = IF @ = << >> THEN @ ELSE pop(@),
            !.m_alreadyCompiledFunctions = @ \cup {function}]

\* FunctionCompilationQueue::startFunction
startFunction(q, function) ==
  The({ [q1 EXCEPT !.m_alreadyCompiledFunctions = @ \cup {function}]
        : q1 \in {IF q.m_functionsToCompile # << >> /\ front(q.m_functionsToCompile) = function
                    THEN [q EXCEPT !.m_functionsToCompile = pop(@)]
                    ELSE q} })

StoreQueue(q) ==
  /\ m_entryLabels' = q.m_entryLabels
  /\ m_alreadyCompiledFunctions' = q.m_alreadyCompiledFunctions
  /\ m_functionsToCompile' = q.m_functionsToCompile

\* one entry of the history: the call, the declaration it returned or was
\* given, the pending queue it started from, the queue q it left, and the
\* declarations that had an entry label
Compilation(op, declaration, pending, q) ==
  [ op |-> op, declaration |-> declaration, pending |-> pending,
    left |-> q.m_functionsToCompile, labels |-> DOMAIN m_entryLabels ]

\* what the history keeps of an entry-label request: the call, the tag id it
\* returned, and the labels, the pending queue, the compiled declarations and
\* the tag counter it started from
LabelCall(op, declaration, tag) ==
  [ op |-> op, declaration |-> declaration, tag |-> tag,
    labels |-> m_entryLabels, pending |-> m_functionsToCompile,
    compiled |-> m_alreadyCompiledFunctions, usedTags |-> m_usedTags ]

\* a request for the entry label of a declaration (CompilerContext::functionEntryLabel)
EntryLabel(declaration) ==
  /\ \E r \in {entryLabel(FunctionCompilationQueue, Context(FALSE), declaration)} :
       /\ StoreQueue(r.q)
       /\ Store(r.c)
       /\ labelled' = LabelCall("entryLabel", declaration, r.tag)
  /\ UNCHANGED << pc, cur, steps, generated, last, rewritten, compilations,
                  passvars, yulvars, smtvars, depositvars, furthervars >>

\* a lookup of the entry label of a declaration
\* (CompilerContext::functionEntryLabelIfExists)
EntryLabelIfExists(declaration) ==
  /\ labelled' = LabelCall("entryLabelIfExists", declaration,
                           entryLabelIfExists(FunctionCompilationQueue, declaration))
  /\ UNCHANGED << vars, m_entryLabels, m_alreadyCompiledFunctions, m_functionsToCompile,
                  compilations, passvars, yulvars, smtvars, depositvars, furthervars >>

\* a direct CompilerContext::startFunction for a declaration not yet compiled
StartFunction(declaration) ==
  /\ Len(compilations) < MaxCompilations
  /\ declaration \notin m_alreadyCompiledFunctions
  /\ \E q \in {startFunction(FunctionCompilationQueue, declaration)} :
       /\ StoreQueue(q)
       /\ compilations' =
            Append(compilations,
                   Compilation("startFunction", declaration, m_functionsToCompile, q))
  /\ labelled' = [op |-> "none"]
  /\ UNCHANGED << vars, passvars, yulvars, smtvars, depositvars, furthervars >>

\* one round of the driver loop: d := nextFunctionToCompile(); startFunction(d),
\* or the end of the loop when nextFunctionToCompile returns null
CompileNext ==
  /\ Len(compilations) + 1 < MaxCompilations
  /\ \E r \in {nextFunctionToCompile(FunctionCompilationQueue)} :
       IF r.declaration = nullptr
         THEN /\ StoreQueue(r.q)
              /\ compilations' =
                   Append(compilations,
                          Compilation("nextFunctionToCompile", nullptr,
                                      m_functionsToCompile, r.q))
         ELSE \E q \in {startFunction(r.q, r.declaration)} :
              /\ StoreQueue(q)
              /\ compilations' =
                   compilations \o
                     << Compilation("nextFunctionToCompile", r.declaration,
                                    m_functionsToCompile, r.q),
                        Compilation("startFunction", r.declaration,
                                    r.q.m_functionsToCompile, q) >>
  /\ labelled' = [op |-> "none"]
  /\ UNCHANGED << vars, passvars, yulvars, smtvars, depositvars, furthervars >>

QueueNext ==
  \/ \E declaration \in Declarations : EntryLabel(declaration)
  \/ \E declaration \in Declarations : EntryLabelIfExists(declaration)
  \/ \E declaration \in Declarations : StartFunction(declaration)
  \/ CompileNext

QueueSpec == Init /\ [][QueueNext]_allvars

\* The entry-label requests and starts of a compilation whose driver loop
\* (ContractCompiler: while nextFunctionToCompile() returns a declaration,
\* compile it) keeps running.
DriverNext ==
  \/ \E declaration \in Declarations : EntryLabel(declaration)
  \/ \E declaration \in Declarations : StartFunction(declaration)
  \/ CompileNext

DriverSpec == Init /\ [][DriverNext]_allvars /\ WF_allvars(CompileNext)

\* the declarations started before call n of the history
StartedBefore(n) ==
  { compilations[j].declaration :
      j \in {k \in 1..(n - 1) : compilations[k].op = "startFunction"} }

\* C16: nextFunctionToCompile never returns a declaration that was started
\* before, and no declaration is started twice, whatever the interleaving of
\* entry-label requests, direct starts and rounds of the driver loop.
C16_CompiledOnce ==
  /\ \A n \in DOMAIN compilations :
       compilations[n].op = "nextFunctionToCompile" =>
         compilations[n].declaration \notin StartedBefore(n)
  /\ \A n \in DOMAIN compilations :
       compilations[n].op = "startFunction" =>
         compilations[n].declaration \notin StartedBefore(n)

\* a declaration was started directly while its entry waited behind another
\* one, and a later round of the driver loop found that stale entry at the
\* front and returned something else
C16_Witness ==
  \E i \in DOMAIN compilations, n \in DOMAIN compilations :
    /\ i < n
    /\ compilations[i].op = "startFunction"
    /\ Len(compilations[i].pending) >= 2
    /\ compilations[i].pending[2] = compilations[i].declaration
    /\ compilations[n].op = "nextFunctionToCompile"
    /\ compilations[n].pending # << >>
    /\ compilations[n].pending[1] = compilations[i].declaration
    /\ compilations[n].declaration \notin {nullptr, compilations[i].declaration}

\* the entries of queue q from the first one that is not in compiled
RECURSIVE DropCompiled(_, _)
DropCompiled(q, compiled) ==
  IF q = << >> \/ Head(q) \notin compiled THEN q ELSE DropCompiled(Tail(q), compiled)

\* C31: startFunction(d) takes an entry from the pending queue exactly when d
\* stands at the front, and leaves the queue as it is otherwise; in both cases
\* d stays marked compiled.  nextFunctionToCompile drops the entries of
\* started declarations from the front, and returns, of the labelled
\* declarations not yet started, the one whose entry label was requested first.
C31_StartKeepsOrder ==
  \A n \in DOMAIN compilations :
    \E call \in {compilations[n]} :
      /\ call.op = "startFunction" =>
           /\ call.left = IF call.pending # << >> /\ Head(call.pending) = call.declaration
                             THEN Tail(call.pending) ELSE call.pending
           /\ call.declaration \in m_alreadyCompiledFunctions
      /\ call.op = "nextFunctionToCompile" =>
           /\ call.left = DropCompiled(call.pending, StartedBefore(n))
           /\ call.declaration = IF call.left = << >> THEN nullptr ELSE Head(call.left)
           /\ call.declaration # nullptr =>
                /\ call.declaration \in call.labels \ StartedBefore(n)
                /\ \A d \in call.labels \ StartedBefore(n) :
                     m_entryLabels[call.declaration] <= m_entryLabels[d]

\* a declaration was started while it stood behind the front, the queue kept
\* its content, and a later round dropped the stale entry and returned the
\* declaration behind it
C31_Witness ==
  \E i \in DOMAIN compilations, n \in DOMAIN compilations :
    /\ i < n
    /\ compilations[i].op = "startFunction"
    /\ Len(compilations[i].pending) = 3
    /\ compilations[i].pending[2] = compilations[i].declaration
    /\ compilations[i].left = compilations[i].pending
    /\ compilations[n].op = "nextFunctionToCompile"
    /\ Head(compilations[n].pending) = compilations[i].declaration
    /\ compilations[n].left = Tail(compilations[n].pending)
    /\ compilations[n].declaration = compilations[i].pending[3]

\* the declarations in the pending queue
Queued == { m_functionsToCompile[k] : k \in DOMAIN m_functionsToCompile }

\* every declaration with an entry label that is not marked compiled is in
\* the pending queue, and nextFunctionToCompile returned null only when every
\* declaration labelled by then had been started
NoneLost ==
  /\ \A d \in DOMAIN m_entryLabels : d \notin m_alreadyCompiledFunctions => d \in Queued
  /\ \A n \in DOMAIN compilations :
       (compilations[n].op = "nextFunctionToCompile" /\ compilations[n].declaration = nullptr)
         => compilations[n].labels \subseteq StartedBefore(n)

\* the history has no room for another round of the driver loop
HistoryFull == Len(compilations) + 1 >= MaxCompilations

Pending(declaration) ==
  Cardinality({k \in DOMAIN m_functionsToCompile : m_functionsToCompile[k] = declaration})

\* C30: the first entryLabel request for a declaration hands out a tag id
\* that no declaration has yet, records it and appends the declaration to the
\* pending queue; a later request, also after the declaration was compiled,
\* returns the recorded tag and changes nothing, so that a declaration is
\* queued once; entryLabelIfExists changes nothing and returns the undefined
\* item for a declaration that was never requested.
C30_EntryLabelOnce ==
  /\ \A declaration \in Declarations : Pending(declaration) <= 1
  /\ labelled.op = "entryLabel" =>
       IF labelled.declaration \notin DOMAIN labelled.labels
         THEN /\ labelled.tag = labelled.usedTags
              /\ \A d \in DOMAIN labelled.labels : labelled.labels[d] # labelled.tag
              /\ m_usedTags = labelled.usedTags + 1
              /\ m_entryLabels = (labelled.declaration :> labelled.tag) @@ labelled.labels
              /\ m_functionsToCompile = Append(labelled.pending, labelled.declaration)
         ELSE /\ labelled.tag = labelled.labels[labelled.declaration]
              /\ m_usedTags = labelled.usedTags
              /\ m_entryLabels = labelled.labels
              /\ m_functionsToCompile = labelled.pending
  /\ labelled.op = "entryLabelIfExists" =>
       /\ m_usedTags = labelled.usedTags
       /\ m_entryLabels = labelled.labels
       /\ m_functionsToCompile = labelled.pending
       /\ labelled.tag = IF labelled.declaration \in DOMAIN labelled.labels
                           THEN labelled.labels[labelled.declaration] ELSE 0
  /\ labelled.op # "none" => m_alreadyCompiledFunctions = labelled.compiled

\* the label of a declaration that got the second tag was requested again after
\* the declaration had been compiled and had left the pending queue
C30_Witness ==
  /\ labelled.op = "entryLabel"
  /\ labelled.declaration \in DOMAIN labelled.labels
  /\ labelled.declaration \in labelled.compiled
  /\ Pending(labelled.declaration) = 0
  /\ labelled.tag = 2

\* ---------------------------------------------------------- stack deposit
Adjustments == -2..2
Deposits == -1..2
MaxDepositCalls == 4

\* one entry of the history: the call, its argument, the deposit before and
\* after it, and how it ended
DepositCall(op, argument, c) ==
  [ op |-> op, argument |-> argument, before |-> m_deposit, after |-> c.m_deposit,
    status |-> IF c.failed THEN "InvalidDeposit" ELSE "returned" ]

\* Assembly::adjustDeposit called by a client
AdjustDeposit(adjustment) ==
  /\ ~failed /\ Len(deposits) < MaxDepositCalls
  /\ \E c \in {adjustDeposit(Context(FALSE), adjustment)} :
       /\ Store(c)
       /\ deposits' = Append(deposits, DepositCall("adjustDeposit", adjustment, c))
  /\ UNCHANGED << pc, cur, steps, generated, last, rewritten,
                  passvars, queuevars, yulvars, smtvars, furthervars >>

\* Assembly::setDeposit called by a client
SetDeposit(deposit) ==
  /\ ~failed /\ Len(deposits) < MaxDepositCalls
  /\ \E c \in {setDeposit(Context(FALSE), deposit)} :
       /\ Store(c)
       /\ deposits' = Append(deposits, DepositCall("setDeposit", deposit, c))
  /\ UNCHANGED << pc, cur, steps, generated, last, rewritten,
                  passvars, queuevars, yulvars, smtvars, furthervars >>

DepositNext ==
  \/ \E adjustment \in Adjustments : AdjustDeposit(adjustment)
  \/ \E deposit \in Deposits : SetDeposit(deposit)

DepositSpec == Init /\ [][DepositNext]_allvars

\* the deposit a call asks for
Requested(call) ==
  IF call.op = "adjustDeposit" THEN call.before + call.argument ELSE call.argument

\* C17: the deposit after an adjustDeposit or setDeposit call that returned is
\* never negative, and a call that asks for a negative deposit ends with
\* InvalidDeposit.
C17_DepositNeverNegative ==
  /\ ~failed => m_deposit >= 0
  /\ \A n \in DOMAIN deposits :
       /\ deposits[n].status = "returned" =>
            deposits[n].after >= 0 /\ deposits[n].after = Requested(deposits[n])
       /\ Requested(deposits[n]) < 0 => deposits[n].status = "InvalidDeposit"

\* after calls that returned, one of them reaching zero, an adjustment below
\* zero was refused
C17_Witness ==
  /\ Len(deposits) >= 3
  /\ deposits[1].status = "returned" /\ deposits[1].after > 0
  /\ deposits[2].status = "returned" /\ deposits[2].after = 0
  /\ deposits[2].op = "adjustDeposit"
  /\ deposits[3].op = "adjustDeposit" /\ deposits[3].status = "InvalidDeposit"

\* ------------------------------------------------- externally used Yul functions
YulNames == {"abi_decode", "cleanup"}
YulArguments == 0..1
MaxYulCalls == 4

\* the Yul function bookkeeping of the context and the named tags of its assembly
YulFunctions ==
  [ m_externallyUsedYulFunctions |-> m_externallyUsedYulFunctions,
    m_requestedYulFunctionsRan |-> m_requestedYulFunctionsRan,
    m_namedTags |-> m_namedTags ]

\* Assembly::namedTag: the tag identified by the name, created if it does not exist
namedTag(y, c, name) ==
  IF name \in DOMAIN y.m_namedTags
    THEN [y |-> y, c |-> c, tag |-> y.m_namedTags[name]]
    ELSE The({ [ y |-> [y EXCEPT !.m_namedTags = (name :> t.tag) @@ @],
                 c |-> t.c, tag |-> t.tag ]
               : t \in {newTag(c)} })

\* CompilerContext::appendJumpTo
appendJumpTo(c, tag, jumpType) == appendJump(append(c, PushTagItem(tag)), jumpType)

\* callYulFunction that does not record the name
callYulFunction_no_record(y, c, name, inArgs, outArgs) ==
  The({ The({ The({ The({ The({
    [y |-> f.y, c |-> append(c4, TagItem(r.tag))]
    : c4 \in {IF c3.failed THEN c3 ELSE adjustStackOffset(c3, outArgs - 1 - inArgs)} })
    : c3 \in {appendJumpTo(f.c, f.tag, "IntoFunction")} })
    : f \in {namedTag(y, c1, name)} })
    : c1 \in {moveIntoStack(r.c, inArgs)} })
    : r \in {pushNewTag(c)} })

\* CompilerContext::callYulFunction
callYulFunction(y, c, name, inArgs, outArgs) ==
  The({ The({ The({ The({ The({ The({
    [y |-> f.y, c |-> append(c4, TagItem(r.tag))]
    : c4 \in {IF c3.failed THEN c3 ELSE adjustStackOffset(c3, outArgs - 1 - inArgs)} })
    : c3 \in {appendJumpTo(f.c, f.tag, "IntoFunction")} })
    : f \in {namedTag(y1, c1, name)} })
    : c1 \in {moveIntoStack(r.c, inArgs)} })
    : r \in {pushNewTag(c)} })
    : y1 \in {[y EXCEPT !.m_externallyUsedYulFunctions = @ \cup {name}]} })

\* requestedYulFunctions without the flag that it ran
requestedYulFunctions_repeatable(y) ==
  [ y |-> [y EXCEPT !.m_externallyUsedYulFunctions = {}],
    status |-> "returned", code |-> "requestedFunctions",
    names |-> y.m_externallyUsedYulFunctions ]

\* CompilerContext::requestedYulFunctions: the code of the requested Yul
\* functions and the externally used names, which it takes out of the context
requestedYulFunctions(y) ==
  IF y.m_requestedYulFunctionsRan
    THEN [y |-> y, status |-> "InternalCompilerError", code |-> "", names |-> {}]
    ELSE [ y |-> [y EXCEPT !.m_requestedYulFunctionsRan = TRUE,
                           !.m_externallyUsedYulFunctions = {}],
           status |-> "returned", code |-> "requestedFunctions",
           names |-> y.m_externallyUsedYulFunctions ]

StoreYul(y) ==
  /\ m_externallyUsedYulFunctions' = y.m_externallyUsedYulFunctions
  /\ m_requestedYulFunctionsRan' = y.m_requestedYulFunctionsRan
  /\ m_namedTags' = y.m_namedTags

\* a call site of a Yul function
CallYulFunction(name, inArgs, outArgs) ==
  /\ ~failed /\ Len(yulRequests) < MaxYulCalls
  /\ \E r \in {callYulFunction(YulFunctions, Context(FALSE), name, inArgs, outArgs)} :
       /\ StoreYul(r.y)
       /\ Store(r.c)
  /\ yulRequests' = Append(yulRequests,
                           [ op |-> "callYulFunction", name |-> name, status |-> "returned",
                             names |-> {}, left |-> {} ])
  /\ UNCHANGED << pc, cur, steps, generated, last, rewritten,
                  passvars, queuevars, smtvars, depositvars, furthervars >>

\* the contract compiler asks for the requested Yul functions
RequestedYulFunctions ==
  /\ ~failed /\ Len(yulRequests) < MaxYulCalls
  /\ \E r \in {requestedYulFunctions(YulFunctions)} :
       /\ StoreYul(r.y)
       /\ yulRequests' = Append(yulRequests,
                                [ op |-> "requestedYulFunctions", name |-> "",
                                  status |-> r.status, names |-> r.names,
                                  left |-> r.y.m_externallyUsedYulFunctions ])
  /\ UNCHANGED << vars, passvars, queuevars, smtvars, depositvars, furthervars >>

YulNext ==
  \/ \E name \in YulNames, inArgs \in YulArguments, outArgs \in YulArguments :
       CallYulFunction(name, inArgs, outArgs)
  \/ RequestedYulFunctions

YulSpec == Init /\ [][YulNext]_allvars

\* the positions of the requestedYulFunctions calls in the history, and the
\* names that callYulFunction was called with before a position
Requests == {n \in DOMAIN yulRequests : yulRequests[n].op = "requestedYulFunctions"}
CalledBefore(n) ==
  { yulRequests[k].name :
      k \in {j \in 1..(n - 1) : yulRequests[j].op = "callYulFunction"} }

\* C18: the first requestedYulFunctions call returns the names that the
\* callYulFunction calls before it recorded and leaves the set empty; every
\* later call ends with a failed assertion and returns no names.
C18_ConsumedOnce ==
  \A n \in Requests :
    IF \A k \in Requests : n <= k
      THEN /\ yulRequests[n].status = "returned"
           /\ yulRequests[n].names = CalledBefore(n)
           /\ yulRequests[n].left = {}
      ELSE /\ yulRequests[n].status = "InternalCompilerError"
           /\ yulRequests[n].names = {}

\* a name was recorded and returned by the first call, a further name was
\* recorded after it, and the second call failed
C18_Witness ==
  /\ Len(yulRequests) = 4
  /\ yulRequests[1].op = "callYulFunction"
  /\ yulRequests[2].op = "requestedYulFunctions"
  /\ yulRequests[2].names = {yulRequests[1].name}
  /\ yulRequests[3].op = "callYulFunction"
  /\ yulRequests[4].op = "requestedYulFunctions"
  /\ yulRequests[4].status = "InternalCompilerError"
  /\ m_externallyUsedYulFunctions # {}

\* ------------------------------------------------------------ solver portfolio
CheckResults == {"SATISFIABLE", "UNSATISFIABLE", "UNKNOWN", "CONFLICTING", "ERROR"}
MaxSolvers == 3
SolverLists == UNION { [1..n -> CheckResults] : n \in 1..MaxSolvers }

\* SMTPortfolio::solverAnswered
solverAnswered(result) == result \in {"SATISFIABLE", "UNSATISFIABLE"}

\* the loop body without the comparison of two answers
consult_first_wins(acc, result, k) ==
  IF solverAnswered(result)
    THEN IF ~solverAnswered(acc.lastResult)
           THEN [acc EXCEPT !.lastResult = result, !.finalValues = k]
           ELSE acc
    ELSE IF result = "UNKNOWN" /\ acc.lastResult = "ERROR"
           THEN [acc EXCEPT !.lastResult = result]
           ELSE acc

\* the loop body with an UNKNOWN that replaces whatever was found before
consult_unknown_overrides(acc, result, k) ==
  IF solverAnswered(result)
    THEN IF ~solverAnswered(acc.lastResult)
           THEN [acc EXCEPT !.lastResult = result, !.finalValues = k]
           ELSE IF acc.lastResult # result
             THEN [acc EXCEPT !.lastResult = "CONFLICTING", !.break = TRUE]
             ELSE acc
    ELSE IF result = "UNKNOWN"
           THEN [acc EXCEPT !.lastResult = result]
           ELSE acc

\* the loop body without the branch that remembers an UNKNOWN
consult_ignores_unknown(acc, result, k) ==
  IF solverAnswered(result)
    THEN IF ~solverAnswered(acc.lastResult)
           THEN [acc EXCEPT !.lastResult = result, !.finalValues = k]
           ELSE IF acc.lastResult # result
             THEN [acc EXCEPT !.lastResult = "CONFLICTING", !.break = TRUE]
             ELSE acc
    ELSE acc

\* the body of the loop of SMTPortfolio::check for the result of solver k; the
\* values of solver k are represented by k
consult(acc, result, k) ==
  IF solverAnswered(result)
    THEN IF ~solverAnswered(acc.lastResult)
           THEN [acc EXCEPT !.lastResult = result, !.finalValues = k]
           ELSE IF acc.lastResult # result
             THEN [acc EXCEPT !.lastResult = "CONFLICTING", !.break = TRUE]
             ELSE acc
    ELSE IF result = "UNKNOWN" /\ acc.lastResult = "ERROR"
           THEN [acc EXCEPT !.lastResult = result]
           ELSE acc

\* the loop of SMTPortfolio::check over the first k solvers
RECURSIVE consultAll(_, _)
consultAll(solvers, k) ==
  IF k = 0 THEN [lastResult |-> "ERROR", finalValues |-> 0, break |-> FALSE, queried |-> 0]
  ELSE The({ IF acc.break THEN acc
             ELSE [consult(acc, solvers[k], k) EXCEPT !.queried = k]
             : acc \in {consultAll(solvers, k - 1)} })

\* SMTPortfolio::check
check(solvers) ==
  The({ [result |-> acc.lastResult, values |-> acc.finalValues, queried |-> acc.queried]
        : acc \in {consultAll(solvers, Len(solvers))} })

PortfolioSpecInit ==
  /\ m_items = << >>
  /\ ContextRestInit
  /\ PassInit
  /\ QueueInit
  /\ YulInit
  /\ DepositInit
  /\ FurtherInit
  /\ m_solvers \in SolverLists
  /\ checked = << >>

\* one query of the portfolio
Check ==
  /\ checked = << >>
  /\ checked' = Append(checked, check(m_solvers))
  /\ UNCHANGED << vars, passvars, queuevars, yulvars, depositvars, furthervars, m_solvers >>

PortfolioNext == Check

PortfolioSpec == PortfolioSpecInit /\ [][PortfolioNext]_allvars

\* the answers of the solvers of the portfolio
Answers == { m_solvers[k] : k \in {j \in DOMAIN m_solvers : solverAnswered(m_solvers[j])} }

\* C19: when one solver of the portfolio answers SATISFIABLE and one answers
\* UNSATISFIABLE, in any positions and with any other results around them,
\* check returns CONFLICTING.
C19_Conflict ==
  \A n \in DOMAIN checked :
    Answers = {"SATISFIABLE", "UNSATISFIABLE"} => checked[n].result = "CONFLICTING"

\* a conflict between the first and the last solver with a non-answer between
C19_Witness ==
  /\ Len(checked) = 1 /\ Len(m_solvers) = 3
  /\ m_solvers[1] = "UNSATISFIABLE"
  /\ m_solvers[2] \in {"UNKNOWN", "ERROR"}
  /\ m_solvers[3] = "SATISFIABLE"
  /\ checked[1].result = "CONFLICTING"

\* C20: when at least one solver answers and all answers are the same, check
\* returns that answer, whatever the other solvers return and wherever the
\* answering solver stands.
C20_AnswersWin ==
  \A n \in DOMAIN checked :
    Cardinality(Answers) = 1 => checked[n].result \in Answers

\* the one answer stands between an ERROR and an UNKNOWN
C20_Witness ==
  /\ Len(checked) = 1 /\ Len(m_solvers) = 3
  /\ m_solvers[1] = "ERROR"
  /\ m_solvers[2] = "UNSATISFIABLE"
  /\ m_solvers[3] = "UNKNOWN"
  /\ checked[1].result = "UNSATISFIABLE"
  /\ checked[1].values = 2

\* the results of the solvers of the portfolio
Results == { m_solvers[k] : k \in DOMAIN m_solvers }

\* C24: when no solver of the portfolio answers SATISFIABLE or UNSATISFIABLE,
\* check returns UNKNOWN if at least one solver returned UNKNOWN, wherever it
\* stands, and of the portfolios whose solvers returned UNKNOWN or ERROR it
\* returns ERROR only for those where every solver returned ERROR.
C24_NoAnswer ==
  \A n \in DOMAIN checked :
    Answers = {} =>
      /\ "UNKNOWN" \in Results => checked[n].result = "UNKNOWN"
      /\ checked[n].result = "ERROR" => "UNKNOWN" \notin Results
      /\ (Results \subseteq {"UNKNOWN", "ERROR"} /\ checked[n].result = "ERROR")
            => Results = {"ERROR"}
      /\ Results = {"ERROR"} => checked[n].result = "ERROR"
      /\ checked[n].values = 0

\* the only UNKNOWN stands last, after solvers that returned ERROR
C24_Witness ==
  /\ Len(checked) = 1 /\ Len(m_solvers) = 3
  /\ m_solvers[1] = "ERROR"
  /\ m_solvers[2] = "ERROR"
  /\ m_solvers[3] = "UNKNOWN"
  /\ checked[1].result = "UNKNOWN"

\* ------------------------------------------------------ semantic information
\* c_instructionInfo: <<args, ret, sideEffects>> of the opcodes that are not
\* members of the PUSH, DUP, SWAP families
OpcodeTable ==
  [ STOP |-> <<0, 0, TRUE>>, ADD |-> <<2, 1, FALSE>>, MUL |-> <<2, 1, FALSE>>,
    SUB |-> <<2, 1, FALSE>>, DIV |-> <<2, 1, FALSE>>, SDIV |-> <<2, 1, FALSE>>,
    MOD |-> <<2, 1, FALSE>>, SMOD |-> <<2, 1, FALSE>>, ADDMOD |-> <<3, 1, FALSE>>,
    MULMOD |-> <<3, 1, FALSE>>, EXP |-> <<2, 1, FALSE>>, SIGNEXTEND |-> <<2, 1, FALSE>>,
    LT |-> <<2, 1, FALSE>>, GT |-> <<2, 1, FALSE>>, SLT |-> <<2, 1, FALSE>>,
    SGT |-> <<2, 1, FALSE>>, EQ |-> <<2, 1, FALSE>>, ISZERO |-> <<1, 1, FALSE>>,
    AND |-> <<2, 1, FALSE>>, OR |-> <<2, 1, FALSE>>, XOR |-> <<2, 1, FALSE>>,
    NOT |-> <<1, 1, FALSE>>, BYTE |-> <<2, 1, FALSE>>, SHL |-> <<2, 1, FALSE>>,
    SHR |-> <<2, 1, FALSE>>, SAR |-> <<2, 1, FALSE>>, KECCAK256 |-> <<2, 1, TRUE>>,
    ADDRESS |-> <<0, 1, FALSE>>, BALANCE |-> <<1, 1, FALSE>>, ORIGIN |-> <<0, 1, FALSE>>,
    CALLER |-> <<0, 1, FALSE>>, CALLVALUE |-> <<0, 1, FALSE>>,
    CALLDATALOAD |-> <<1, 1, FALSE>>, CALLDATASIZE |-> <<0, 1, FALSE>>,
    CALLDATACOPY |-> <<3, 0, TRUE>>, CODESIZE |-> <<0, 1, FALSE>>,
    CODECOPY |-> <<3, 0, TRUE>>, GASPRICE |-> <<0, 1, FALSE>>,
    EXTCODESIZE |-> <<1, 1, FALSE>>, EXTCODECOPY |-> <<4, 0, TRUE>>,
    RETURNDATASIZE |-> <<0, 1, FALSE>>, RETURNDATACOPY |-> <<3, 0, TRUE>>,
    EXTCODEHASH |-> <<1, 1, FALSE>>, BLOCKHASH |-> <<1, 1, FALSE>>,
    COINBASE |-> <<0, 1, FALSE>>, TIMESTAMP |-> <<0, 1, FALSE>>,
    NUMBER |-> <<0, 1, FALSE>>, DIFFICULTY |-> <<0, 1, FALSE>>,
    GASLIMIT |-> <<0, 1, FALSE>>, CHAINID |-> <<0, 1, FALSE>>,
    SELFBALANCE |-> <<0, 1, FALSE>>, POP |-> <<1, 0, FALSE>>, MLOAD |-> <<1, 1, TRUE>>,
    MSTORE |-> <<2, 0, TRUE>>, MSTORE8 |-> <<2, 0, TRUE>>, SLOAD |-> <<1, 1, FALSE>>,
    SSTORE |-> <<2, 0, TRUE>>, JUMP |-> <<1, 0, TRUE>>, JUMPI |-> <<2, 0, TRUE>>,
    PC |-> <<0, 1, FALSE>>, MSIZE |-> <<0, 1, FALSE>>, GAS |-> <<0, 1, FALSE>>,
    JUMPDEST |-> <<0, 0, TRUE>>,
    LOG0 |-> <<2, 0, TRUE>>, LOG1 |-> <<3, 0, TRUE>>, LOG2 |-> <<4, 0, TRUE>>,
    LOG3 |-> <<5, 0, TRUE>>, LOG4 |-> <<6, 0, TRUE>>,
    CREATE |-> <<3, 1, TRUE>>, CALL |-> <<7, 1, TRUE>>, CALLCODE |-> <<7, 1, TRUE>>,
    RETURN |-> <<2, 0, TRUE>>, DELEGATECALL |-> <<6, 1, TRUE>>,
    STATICCALL |-> <<6, 1, TRUE>>, CREATE2 |-> <<4, 1, TRUE>>,
    REVERT |-> <<2, 0, TRUE>>, INVALID |-> <<0, 0, TRUE>>,
    SELFDESTRUCT |-> <<1, 0, TRUE>>,
    OVM_PLACEHOLDER_CALLER |-> <<0, 1, FALSE>>, OVM_PLACEHOLDER_CALL |-> <<7, 1, TRUE>> ]

\* the opcode families, by their number
PushNumbers == 1..32
DupNumbers == 1..16
SwapNumbers == 1..16
PUSH(n) == "PUSH" \o ToString(n)
DUP(n) == "DUP" \o ToString(n)
SWAP(n) == "SWAP" \o ToString(n)
PushInstructions == { PUSH(n) : n \in PushNumbers }
DupInstructions == { DUP(n) : n \in DupNumbers }
SwapInstructions == { SWAP(n) : n \in SwapNumbers }

\* the instruction set
AllInstructions ==
  DOMAIN OpcodeTable \cup PushInstructions \cup DupInstructions \cup SwapInstructions

\* evmasm::isDupInstruction / isSwapInstruction
isDupInstruction(instruction) == instruction \in DupInstructions
isSwapInstruction(instruction) == instruction \in SwapInstructions

\* evmasm::instructionInfo
instructionInfo(instruction) ==
  The({ [args |-> t[1], ret |-> t[2], sideEffects |-> t[3]]
        : t \in { IF instruction \in PushInstructions THEN <<0, 1, FALSE>>
                  ELSE IF isDupInstruction(instruction)
                    THEN The({ <<n, n + 1, FALSE>>
                               : n \in {k \in DupNumbers : DUP(k) = instruction} })
                  ELSE IF isSwapInstruction(instruction)
                    THEN The({ <<n + 1, n + 1, FALSE>>
                               : n \in {k \in SwapNumbers : SWAP(k) = instruction} })
                  ELSE OpcodeTable[instruction] } })

\* the answer of a query, or the exception that ended it
Answer(value) == [status |-> "returned", value |-> value]
Failure(exception) == [status |-> exception, value |-> FALSE]

\* breaksCSEAnalysisBlock without the two branches of the OVM change
breaksCSEAnalysisBlock_no_ovm(i, _msizeImportant) ==
  IF i.type \in { "Push", "PushString", "PushTag", "PushSub", "PushSubSize",
                  "PushProgramSize", "PushData", "PushLibraryAddress", "PushImmutable" }
    THEN FALSE
  ELSE IF i.type # "Operation" THEN TRUE
  ELSE IF isSwapInstruction(i.instr) \/ isDupInstruction(i.instr) THEN FALSE
  ELSE IF i.instr \in {"GAS", "PC"} THEN TRUE
  ELSE IF i.instr = "MSIZE" THEN TRUE
  ELSE IF i.instr = "SSTORE" THEN FALSE
  ELSE IF i.instr = "MSTORE" THEN FALSE
  ELSE IF ~_msizeImportant /\ i.instr \in {"MLOAD", "KECCAK256"} THEN FALSE
  ELSE instructionInfo(i.instr).sideEffects \/ instructionInfo(i.instr).args > 2

\* breaksCSEAnalysisBlock that ignores the number of arguments
breaksCSEAnalysisBlock_effects_only(i, _msizeImportant) ==
  IF i.type \in { "Push", "PushString", "PushTag", "PushSub", "PushSubSize",
                  "PushProgramSize", "PushData", "PushLibraryAddress", "PushImmutable" }
    THEN FALSE
  ELSE IF i.type # "Operation" THEN TRUE
  ELSE IF i.instr = "CALLER" THEN TRUE
  ELSE IF i.instr = "OVM_PLACEHOLDER_CALLER" THEN TRUE
  ELSE IF isSwapInstruction(i.instr) \/ isDupInstruction(i.instr) THEN FALSE
  ELSE IF i.instr \in {"GAS", "PC"} THEN TRUE
  ELSE IF i.instr = "MSIZE" THEN TRUE
  ELSE IF i.instr = "SSTORE" THEN FALSE
  ELSE IF i.instr = "MSTORE" THEN FALSE
  ELSE IF ~_msizeImportant /\ i.instr \in {"MLOAD", "KECCAK256"} THEN FALSE
  ELSE instructionInfo(i.instr).sideEffects

\* SemanticInformation::breaksCSEAnalysisBlock
breaksCSEAnalysisBlock(i, _msizeImportant) ==
  IF i.type \in { "Push", "PushString", "PushTag", "PushSub", "PushSubSize",
                  "PushProgramSize", "PushData", "PushLibraryAddress", "PushImmutable" }
    THEN FALSE
  ELSE IF i.type # "Operation" THEN TRUE
  ELSE IF i.instr = "CALLER" THEN TRUE
  ELSE IF i.instr = "OVM_PLACEHOLDER_CALLER" THEN TRUE
  ELSE IF isSwapInstruction(i.instr) \/ isDupInstruction(i.instr) THEN FALSE
  ELSE IF i.instr \in {"GAS", "PC"} THEN TRUE
  ELSE IF i.instr = "MSIZE" THEN TRUE
  ELSE IF i.instr = "SSTORE" THEN FALSE
  ELSE IF i.instr = "MSTORE" THEN FALSE
  ELSE IF ~_msizeImportant /\ i.instr \in {"MLOAD", "KECCAK256"} THEN FALSE
  ELSE instructionInfo(i.instr).sideEffects \/ instructionInfo(i.instr).args > 2

\* SemanticInformation::isCommutativeOperation
isCommutativeOperation(i) ==
  i.type = "Operation" /\ i.instr \in {"ADD", "MUL", "EQ", "AND", "OR", "XOR"}

\* SemanticInformation::isJumpInstruction
isJumpInstruction(i) == i.type = "Operation" /\ i.instr \in {"JUMP", "JUMPI"}

\* SemanticInformation::altersControlFlow
altersControlFlow(i) ==
  i.type = "Operation"
    /\ i.instr \in {"JUMP", "JUMPI", "RETURN", "SELFDESTRUCT", "STOP", "INVALID", "REVERT"}

\* terminatesControlFlow that counts the jumps in
terminatesControlFlow_with_jumps(instruction) ==
  instruction \in {"JUMP", "JUMPI", "RETURN", "SELFDESTRUCT", "STOP", "INVALID", "REVERT"}

\* SemanticInformation::terminatesControlFlow
terminatesControlFlow(instruction) ==
  instruction \in {"RETURN", "SELFDESTRUCT", "STOP", "INVALID", "REVERT"}

\* SemanticInformation::reverts
reverts(instruction) == instruction \in {"INVALID", "REVERT"}

\* SemanticInformation::isDeterministic
isDeterministic(i) ==
  i.type # "Operation"
    \/ i.instr \notin { "CALL", "CALLCODE", "DELEGATECALL", "STATICCALL", "CREATE", "CREATE2",
                        "GAS", "PC", "MSIZE", "BALANCE", "SELFBALANCE", "EXTCODESIZE",
                        "EXTCODEHASH", "RETURNDATACOPY", "RETURNDATASIZE" }

\* movable without the test of the declared side effects
movable_ignores_effects(instruction) ==
  IF isDupInstruction(instruction) \/ isSwapInstruction(instruction) THEN FALSE
  ELSE instruction \notin { "KECCAK256", "BALANCE", "SELFBALANCE", "EXTCODESIZE",
                            "EXTCODEHASH", "RETURNDATASIZE", "SLOAD", "PC", "MSIZE", "GAS" }

\* SemanticInformation::movable
movable(instruction) ==
  IF isDupInstruction(instruction) \/ isSwapInstruction(instruction) THEN FALSE
  ELSE IF instructionInfo(instruction).sideEffects THEN FALSE
  ELSE instruction \notin { "KECCAK256", "BALANCE", "SELFBALANCE", "EXTCODESIZE",
                            "EXTCODEHASH", "RETURNDATASIZE", "SLOAD", "PC", "MSIZE", "GAS" }

\* SemanticInformation::canBeRemoved
canBeRemoved(instruction) ==
  IF isDupInstruction(instruction) \/ isSwapInstruction(instruction)
    THEN Failure("AssemblyException")
    ELSE Answer(~instructionInfo(instruction).sideEffects)

\* SemanticInformation::canBeRemovedIfNoMSize
canBeRemovedIfNoMSize(instruction) ==
  IF instruction \in {"KECCAK256", "MLOAD"} THEN Answer(TRUE) ELSE canBeRemoved(instruction)

\* memory with the effect of creation taken for a write
memory_creation_writes(instruction) ==
  IF instruction \in { "CALLDATACOPY", "CODECOPY", "EXTCODECOPY", "RETURNDATACOPY", "MSTORE",
                       "MSTORE8", "CALL", "CALLCODE", "DELEGATECALL", "STATICCALL",
                       "CREATE", "CREATE2" }
    THEN "Write"
  ELSE IF instruction \in { "KECCAK256", "MLOAD", "MSIZE", "RETURN",
                            "REVERT", "LOG0", "LOG1", "LOG2", "LOG3", "LOG4" }
    THEN "Read"
  ELSE "None"

\* SemanticInformation::memory
memory(instruction) ==
  IF instruction \in { "CALLDATACOPY", "CODECOPY", "EXTCODECOPY", "RETURNDATACOPY", "MSTORE",
                       "MSTORE8", "CALL", "CALLCODE", "DELEGATECALL", "STATICCALL" }
    THEN "Write"
  ELSE IF instruction \in { "CREATE", "CREATE2", "KECCAK256", "MLOAD", "MSIZE", "RETURN",
                            "REVERT", "LOG0", "LOG1", "LOG2", "LOG3", "LOG4" }
    THEN "Read"
  ELSE "None"

\* SemanticInformation::movableApartFromEffects
movableApartFromEffects(instruction) ==
  IF instruction \in { "EXTCODEHASH", "EXTCODESIZE", "RETURNDATASIZE", "BALANCE",
                       "SELFBALANCE", "SLOAD", "KECCAK256", "MLOAD" }
    THEN TRUE
    ELSE movable(instruction)

\* SemanticInformation::storage
storage(instruction) ==
  IF instruction \in {"CALL", "CALLCODE", "DELEGATECALL", "CREATE", "CREATE2", "SSTORE"}
    THEN "Write"
  ELSE IF instruction \in {"SLOAD", "STATICCALL"} THEN "Read"
  ELSE "None"

\* SemanticInformation::otherState
otherState(instruction) ==
  IF instruction \in { "CALL", "CALLCODE", "DELEGATECALL", "CREATE", "CREATE2",
                       "SELFDESTRUCT", "STATICCALL" }
    THEN "Write"
  ELSE IF instruction \in { "EXTCODESIZE", "EXTCODEHASH", "RETURNDATASIZE", "BALANCE",
                            "SELFBALANCE", "RETURNDATACOPY", "EXTCODECOPY" }
    THEN "Read"
  ELSE "None"

\* SemanticInformation::invalidInViewFunctions
invalidInViewFunctions(instruction) ==
  instruction \in { "SSTORE", "JUMP", "JUMPI", "LOG0", "LOG1", "LOG2", "LOG3", "LOG4",
                    "CREATE", "CALL", "CALLCODE", "DELEGATECALL", "CREATE2", "SELFDESTRUCT" }

\* invalidInPureFunctions without the fall-through to the view list
invalidInPureFunctions_own_list(instruction) ==
  instruction \in { "ADDRESS", "SELFBALANCE", "BALANCE", "ORIGIN", "CALLER", "CALLVALUE",
                    "CHAINID", "GAS", "GASPRICE", "EXTCODESIZE", "EXTCODECOPY",
                    "EXTCODEHASH", "BLOCKHASH", "COINBASE", "TIMESTAMP", "NUMBER",
                    "DIFFICULTY", "GASLIMIT", "STATICCALL", "SLOAD" }

\* SemanticInformation::invalidInPureFunctions
invalidInPureFunctions(instruction) ==
  IF instruction \in { "ADDRESS", "SELFBALANCE", "BALANCE", "ORIGIN", "CALLER", "CALLVALUE",
                       "CHAINID", "GAS", "GASPRICE", "EXTCODESIZE", "EXTCODECOPY",
                       "EXTCODEHASH", "BLOCKHASH", "COINBASE", "TIMESTAMP", "NUMBER",
                       "DIFFICULTY", "GASLIMIT", "STATICCALL", "SLOAD" }
    THEN TRUE
    ELSE invalidInViewFunctions(instruction)

\* EVMDialect::sideEffectsOfInstruction: the fact sheet of a builtin; it is
\* built from the answers of the queries and fails when one of them fails
sideEffectsOfInstruction(instruction) ==
  The({ The({
    IF removed.status # "returned" THEN removed
    ELSE IF removedIfNoMSize.status # "returned" THEN removedIfNoMSize
    ELSE Answer([ movable |-> movable(instruction),
                  movableApartFromEffects |-> movableApartFromEffects(instruction),
                  canBeRemoved |-> removed.value,
                  canBeRemovedIfNoMSize |-> removedIfNoMSize.value,
                  cannotLoop |-> TRUE,
                  otherState |-> otherState(instruction),
                  storage |-> storage(instruction),
                  memory |-> memory(instruction) ])
    : removedIfNoMSize \in {canBeRemovedIfNoMSize(instruction)} })
    : removed \in {canBeRemoved(instruction)} })

\* the answers of the queries that take an assembly item
ItemFacts(i, _msizeImportant) ==
  [ breaksCSEAnalysisBlock |-> Answer(breaksCSEAnalysisBlock(i, _msizeImportant)),
    isCommutativeOperation |-> Answer(isCommutativeOperation(i)),
    isDupInstruction |-> Answer(i.type = "Operation" /\ isDupInstruction(i.instr)),
    isSwapInstruction |-> Answer(i.type = "Operation" /\ isSwapInstruction(i.instr)),
    isJumpInstruction |-> Answer(isJumpInstruction(i)),
    altersControlFlow |-> Answer(altersControlFlow(i)),
    isDeterministic |-> Answer(isDeterministic(i)) ]

\* the answers of the queries that take an instruction
InstructionFacts(instruction) ==
  [ movable |-> Answer(movable(instruction)),
    movableApartFromEffects |-> Answer(movableApartFromEffects(instruction)),
    canBeRemoved |-> canBeRemoved(instruction),
    canBeRemovedIfNoMSize |-> canBeRemovedIfNoMSize(instruction),
    memory |-> Answer(memory(instruction)),
    storage |-> Answer(storage(instruction)),
    otherState |-> Answer(otherState(instruction)),
    terminatesControlFlow |-> Answer(terminatesControlFlow(instruction)),
    reverts |-> Answer(reverts(instruction)),
    invalidInPureFunctions |-> Answer(invalidInPureFunctions(instruction)),
    invalidInViewFunctions |-> Answer(invalidInViewFunctions(instruction)),
    sideEffectsOfInstruction |-> sideEffectsOfInstruction(instruction).status ]

\* the items a pass asks about: every operation and one item of each other type
OtherItemTypes ==
  { "UndefinedItem", "Push", "PushString", "PushTag", "PushSub", "PushSubSize",
    "PushProgramSize", "Tag", "PushData", "PushLibraryAddress", "PushDeployTimeAddress",
    "PushImmutable", "AssignImmutable" }
ClassifiedItems ==
  { Op(instruction) : instruction \in AllInstructions }
    \cup { Item(type, "", 1, "Ordinary") : type \in OtherItemTypes }

ClassifierSpecInit ==
  /\ m_items = << >>
  /\ ContextRestInit
  /\ PassInit
  /\ QueueInit
  /\ YulInit
  /\ PortfolioInit
  /\ DepositInit
  /\ TagInit
  /\ LocalInit
  /\ queriedItem \in ClassifiedItems
  /\ msizeImportant \in BOOLEAN
  /\ itemFacts = << >>
  /\ instructionFacts = << >>

\* an optimiser pass asks the queries that take the item
AskItem ==
  /\ itemFacts = << >>
  /\ itemFacts' = << ItemFacts(queriedItem, msizeImportant) >>
  /\ UNCHANGED << vars, passvars, queuevars, yulvars, smtvars, depositvars, tagvars,
                  localvars, queriedItem, msizeImportant, instructionFacts >>

\* an optimiser pass asks the queries that take the instruction of the item
AskInstruction ==
  /\ queriedItem.type = "Operation"
  /\ instructionFacts = << >>
  /\ instructionFacts' = << InstructionFacts(queriedItem.instr) >>
  /\ UNCHANGED << vars, passvars, queuevars, yulvars, smtvars, depositvars, tagvars,
                  localvars, queriedItem, msizeImportant, itemFacts >>

ClassifierNext == AskItem \/ AskInstruction

ClassifierSpec == ClassifierSpecInit /\ [][ClassifierNext]_allvars

\* C21: an opcode that movable classifies as movable has no declared side
\* effect, and no DUP or SWAP opcode is classified as movable.
C21_MovableHasNoSideEffect ==
  \A n \in DOMAIN instructionFacts :
    instructionFacts[n].movable.value =>
      /\ ~instructionInfo(queriedItem.instr).sideEffects
      /\ queriedItem.instr \notin DupInstructions \cup SwapInstructions
      /\ instructionFacts[n].canBeRemoved = Answer(TRUE)

\* a movable opcode was classified
C21_Witness ==
  /\ instructionFacts # << >>
  /\ queriedItem.instr = "ADD"
  /\ instructionFacts[1].movable = Answer(TRUE)

\* C22 as stated: every query returns a value for every opcode, the DUP and
\* SWAP opcodes included.
C22_Total ==
  \A n \in DOMAIN instructionFacts :
    /\ instructionFacts[n].canBeRemoved.status = "returned"
    /\ instructionFacts[n].canBeRemovedIfNoMSize.status = "returned"
    /\ instructionFacts[n].sideEffectsOfInstruction = "returned"

\* the rule for operations: declared side effects or more than two arguments
SideEffectsOrManyArguments(instruction) ==
  instructionInfo(instruction).sideEffects \/ instructionInfo(instruction).args > 2

\* the operations the claim exempts from the rule
CarvedOut(instruction, _msizeImportant) ==
  \/ instruction \in {"SSTORE", "MSTORE", "CALLER", "OVM_PLACEHOLDER_CALLER"}
  \/ ~_msizeImportant /\ instruction \in {"MLOAD", "KECCAK256"}

\* C26 as stated: for every operation that is not carved out,
\* breaksCSEAnalysisBlock is true exactly if the opcode has declared side
\* effects or takes more than two stack arguments.
C26_Original ==
  \A n \in DOMAIN itemFacts :
    (queriedItem.type = "Operation" /\ ~CarvedOut(queriedItem.instr, msizeImportant)) =>
      (itemFacts[n].breaksCSEAnalysisBlock.value
         <=> SideEffectsOrManyArguments(queriedItem.instr))

\* C26: the rule holds for every operation that is neither carved out nor a
\* DUP, a SWAP, GAS, PC or MSIZE; a DUP or SWAP never breaks the block, and
\* GAS, PC and MSIZE always do.
C26_BlockBreakingRule ==
  \A n \in DOMAIN itemFacts :
    (queriedItem.type = "Operation" /\ ~CarvedOut(queriedItem.instr, msizeImportant)) =>
      (itemFacts[n].breaksCSEAnalysisBlock.value
         <=> IF queriedItem.instr \in DupInstructions \cup SwapInstructions THEN FALSE
             ELSE IF queriedItem.instr \in {"GAS", "PC", "MSIZE"} THEN TRUE
             ELSE SideEffectsOrManyArguments(queriedItem.instr))

\* a DUP with more than two arguments was classified as not block-breaking
C26_Witness ==
  /\ itemFacts # << >>
  /\ queriedItem = Op(DUP(3))
  /\ instructionInfo(queriedItem.instr).args > 2
  /\ itemFacts[1].breaksCSEAnalysisBlock = Answer(FALSE)

\* C27: breaksCSEAnalysisBlock is true for CALLER and OVM_PLACEHOLDER_CALLER
\* and false for SSTORE and MSTORE, whatever the memory-size flag.
C27_CallSequencing ==
  \A n \in DOMAIN itemFacts :
    /\ queriedItem \in {Op("CALLER"), Op("OVM_PLACEHOLDER_CALLER")} =>
         itemFacts[n].breaksCSEAnalysisBlock = Answer(TRUE)
    /\ queriedItem \in {Op("SSTORE"), Op("MSTORE")} =>
         itemFacts[n].breaksCSEAnalysisBlock = Answer(FALSE)

\* the placeholder was asked about with the memory size not important
C27_Witness ==
  /\ itemFacts # << >>
  /\ queriedItem = Op("OVM_PLACEHOLDER_CALLER")
  /\ ~msizeImportant
  /\ itemFacts[1].breaksCSEAnalysisBlock = Answer(TRUE)

\* the calls that run foreign code in a writable context, and the creations
WritingCalls == {"CALL", "CALLCODE", "DELEGATECALL"}
Creations == {"CREATE", "CREATE2"}

\* C28 as stated: CALL, CALLCODE, DELEGATECALL, CREATE and CREATE2 have the
\* effect Write on memory, on storage and on the other state.
C28_Original ==
  \A n \in DOMAIN instructionFacts :
    queriedItem.instr \in WritingCalls \cup Creations =>
      /\ instructionFacts[n].memory = Answer("Write")
      /\ instructionFacts[n].storage = Answer("Write")
      /\ instructionFacts[n].otherState = Answer("Write")

\* C28: CALL, CALLCODE and DELEGATECALL have the effect Write on memory,
\* storage and other state; CREATE and CREATE2 have Write on storage and
\* other state and Read on memory.
C28_CallAndCreationEffects ==
  \A n \in DOMAIN instructionFacts :
    queriedItem.instr \in WritingCalls \cup Creations =>
      /\ instructionFacts[n].memory =
           Answer(IF queriedItem.instr \in Creations THEN "Read" ELSE "Write")
      /\ instructionFacts[n].storage = Answer("Write")
      /\ instructionFacts[n].otherState = Answer("Write")

\* a creation was classified: it reads memory and writes the two other lattices
C28_Witness ==
  /\ instructionFacts # << >>
  /\ queriedItem.instr = "CREATE2"
  /\ instructionFacts[1].memory = Answer("Read")
  /\ instructionFacts[1].storage = Answer("Write")
  /\ instructionFacts[1].otherState = Answer("Write")

\* C29: reverts holds exactly for INVALID and REVERT, terminatesControlFlow
\* exactly for these and RETURN, SELFDESTRUCT, STOP, altersControlFlow
\* exactly for these and JUMP, JUMPI, so that each set contains the one before.
C29_ControlFlowSets ==
  /\ \A n \in DOMAIN instructionFacts :
       /\ instructionFacts[n].reverts.value <=> queriedItem.instr \in {"INVALID", "REVERT"}
       /\ instructionFacts[n].terminatesControlFlow.value
            <=> queriedItem.instr \in {"RETURN", "SELFDESTRUCT", "STOP", "INVALID", "REVERT"}
       /\ instructionFacts[n].reverts.value => instructionFacts[n].terminatesControlFlow.value
       /\ \A k \in DOMAIN itemFacts :
            instructionFacts[n].terminatesControlFlow.value =>
              itemFacts[k].altersControlFlow.value
  /\ \A k \in DOMAIN itemFacts :
       queriedItem.type = "Operation" =>
         (itemFacts[k].altersControlFlow.value
            <=> queriedItem.instr \in { "JUMP", "JUMPI", "RETURN", "SELFDESTRUCT", "STOP",
                                        "INVALID", "REVERT" })

\* a jump was classified: it is in the largest set only
C29_Witness ==
  /\ itemFacts # << >> /\ instructionFacts # << >>
  /\ queriedItem.instr = "JUMPI"
  /\ itemFacts[1].altersControlFlow = Answer(TRUE)
  /\ instructionFacts[1].terminatesControlFlow = Answer(FALSE)
  /\ instructionFacts[1].reverts = Answer(FALSE)

\* the query found an effect on storage or on the other state
TouchesState(facts) ==
  facts.storage.value \in {"Read", "Write"} \/ facts.otherState.value \in {"Read", "Write"}

\* the opcodes that read the return data of the last call
ReturnDataReads == {"RETURNDATASIZE", "RETURNDATACOPY"}

\* C39 as stated: an opcode invalid in view functions is invalid in pure
\* functions, and so is every opcode with an effect on storage or other state.
C39_Original ==
  \A n \in DOMAIN instructionFacts :
    /\ instructionFacts[n].invalidInViewFunctions.value
         => instructionFacts[n].invalidInPureFunctions.value
    /\ TouchesState(instructionFacts[n]) => instructionFacts[n].invalidInPureFunctions.value

\* C39: an opcode invalid in view functions is invalid in pure functions, and
\* so is every opcode with effect Read or Write on storage or other state
\* except RETURNDATASIZE and RETURNDATACOPY, which read the other state and
\* are valid in pure functions.
C39_PureStricterThanView ==
  \A n \in DOMAIN instructionFacts :
    /\ instructionFacts[n].invalidInViewFunctions.value
         => instructionFacts[n].invalidInPureFunctions.value
    /\ (TouchesState(instructionFacts[n]) /\ queriedItem.instr \notin ReturnDataReads)
         => instructionFacts[n].invalidInPureFunctions.value
    /\ queriedItem.instr \in ReturnDataReads =>
         /\ instructionFacts[n].otherState = Answer("Read")
         /\ ~instructionFacts[n].invalidInPureFunctions.value

\* SSTORE was classified: it writes storage and is invalid in view and in pure
\* functions
C39_Witness ==
  /\ instructionFacts # << >>
  /\ queriedItem.instr = "SSTORE"
  /\ instructionFacts[1].storage = Answer("Write")
  /\ instructionFacts[1].invalidInViewFunctions = Answer(TRUE)
  /\ instructionFacts[1].invalidInPureFunctions = Answer(TRUE)

\* ------------------------------------------------------------- tag counter
\* m_usedTags is an unsigned counter; the model word has three bits, and
\* UsedTagsLimit stands for 0xffffffff, the largest value of the counter
UsedTagsLimit == 2^3 - 1
MaxTagCalls == 8

\* m_usedTags++ on the unsigned counter
incrementUsedTags(usedTags) == (usedTags + 1) % (UsedTagsLimit + 1)

\* Assembly::newTag without the assertion on the counter
assemblyNewTag_no_limit(usedTags) ==
  [ status |-> "returned", type |-> "Tag", value |-> usedTags,
    m_usedTags |-> incrementUsedTags(usedTags) ]

\* Assembly::newTag: assertThrow(m_usedTags < 0xffffffff), then the item
\* AssemblyItem(Tag, m_usedTags++)
assemblyNewTag(usedTags) ==
  IF ~(usedTags < UsedTagsLimit)
    THEN [ status |-> "AssemblyException", type |-> "Tag", value |-> 0,
           m_usedTags |-> usedTags ]
    ELSE [ status |-> "returned", type |-> "Tag", value |-> usedTags,
           m_usedTags |-> incrementUsedTags(usedTags) ]

\* Assembly::newPushTag: the same allocation, handed out as a PushTag item
assemblyNewPushTag(usedTags) ==
  The({ [t EXCEPT !.type = "PushTag"] : t \in {assemblyNewTag(usedTags)} })

\* one entry of the history: the call, the counter before it and its result
TagCall(op, t) ==
  [ op |-> op, before |-> m_usedTags, status |-> t.status, type |-> t.type,
    value |-> t.value, after |-> t.m_usedTags ]

\* the variables a tag allocation leaves alone
tagRest == << m_items, m_deposit, m_lowLevelFunctions,
              m_lowLevelFunctionGenerationQueue, m_disable_rewrite, warnings, failed,
              pc, cur, steps, requests, generated, hooklog, hookDepth, last, rewritten,
              passvars, queuevars, yulvars, smtvars, depositvars, classifiervars,
              localvars >>

\* Assembly::newTag called by a client
NewTag ==
  /\ Len(allocated) < MaxTagCalls
  /\ \E t \in {assemblyNewTag(m_usedTags)} :
       /\ m_usedTags' = t.m_usedTags
       /\ allocated' = Append(allocated, TagCall("newTag", t))
  /\ UNCHANGED tagRest

\* Assembly::newPushTag called by a client
NewPushTag ==
  /\ Len(allocated) < MaxTagCalls
  /\ \E t \in {assemblyNewPushTag(m_usedTags)} :
       /\ m_usedTags' = t.m_usedTags
       /\ allocated' = Append(allocated, TagCall("newPushTag", t))
  /\ UNCHANGED tagRest

TagNext == NewTag \/ NewPushTag

TagSpec == Init /\ [][TagNext]_allvars

\* C23: every newTag / newPushTag call that returns hands out an id of at
\* least 1 that is greater than every id handed out before it, and a call made
\* when the counter has reached its limit fails and hands out nothing, so the
\* counter never wraps.
C23_TagIdsUnique ==
  /\ m_usedTags >= 1
  /\ \A n \in DOMAIN allocated :
       /\ allocated[n].status = "returned" =>
            /\ allocated[n].value >= 1
            /\ allocated[n].after > allocated[n].before
            /\ \A i \in 1..(n - 1) :
                 allocated[i].status = "returned" => allocated[i].value < allocated[n].value
       /\ allocated[n].before = UsedTagsLimit =>
            /\ allocated[n].status = "AssemblyException"
            /\ allocated[n].after = UsedTagsLimit

\* both operations handed out ids, the counter reached its limit and the next
\* call failed
C23_Witness ==
  \E i \in DOMAIN allocated, j \in DOMAIN allocated, n \in DOMAIN allocated :
    /\ i < j /\ j < n
    /\ allocated[i].op = "newTag" /\ allocated[i].status = "returned"
    /\ allocated[j].op = "newPushTag" /\ allocated[j].status = "returned"
    /\ allocated[n].before = UsedTagsLimit
    /\ allocated[n].status = "AssemblyException"

\* ---------------------------------------------------------- local variables
LocalDeclarations == {"x", "y"}
SizesOnStack == {0, 1, 2}
MaxHeight == 3
MaxBindings == 3

\* the outcome of a call: the map it leaves and how it ended
Bound(locals) == [status |-> "returned", m_localVariables |-> locals]
Refused(locals) == [status |-> "InternalCompilerError", m_localVariables |-> locals]

\* std::vector::back and pop_back
back(offsets) == offsets[Len(offsets)]
pop_back(offsets) == SubSeq(offsets, 1, Len(offsets) - 1)

\* the map without the entry of declaration (std::map::erase)
erase(locals, declaration) == [d \in DOMAIN locals \ {declaration} |-> locals[d]]

\* CompilerContext::addVariable
addVariable(locals, deposit, declaration, offsetToCurrent, sizeOnStack) ==
  IF ~(deposit >= 0 /\ deposit >= offsetToCurrent) THEN Refused(locals)
  ELSE IF ~(sizeOnStack = 1 \/ sizeOnStack = 2) THEN Refused(locals)
  ELSE Bound((declaration :>
                Append(IF declaration \in DOMAIN locals THEN locals[declaration] ELSE << >>,
                       deposit - offsetToCurrent))
             @@ locals)

\* removeVariable that keeps the entry of a declaration without offsets
removeVariable_keeps_entry(locals, declaration) ==
  IF ~(declaration \in DOMAIN locals /\ locals[declaration] # << >>) THEN Refused(locals)
  ELSE Bound([locals EXCEPT ![declaration] = pop_back(@)])

\* CompilerContext::removeVariable
removeVariable(locals, declaration) ==
  IF ~(declaration \in DOMAIN locals /\ locals[declaration] # << >>) THEN Refused(locals)
  ELSE IF Len(locals[declaration]) = 1
    THEN Bound(erase(locals, declaration))
    ELSE Bound([locals EXCEPT ![declaration] = pop_back(@)])

\* the second loop of removeVariablesAboveStackHeight: removeVariable for
\* every collected declaration
RECURSIVE removeAll(_, _)
removeAll(locals, toRemove) ==
  IF toRemove = {} THEN Bound(locals)
  ELSE The({ The({ IF r.status # "returned" THEN r
                   ELSE removeAll(r.m_localVariables, toRemove \ {declaration})
                   : r \in {removeVariable(locals, declaration)} })
             : declaration \in {CHOOSE d \in toRemove : TRUE} })

\* CompilerContext::removeVariablesAboveStackHeight: the first loop checks
\* every entry and collects the declarations whose current offset is not
\* below _stackHeight, the second loop removes one offset of each
removeVariablesAboveStackHeight(locals, deposit, stackHeight) ==
  IF \E d \in DOMAIN locals : locals[d] = << >> \/ ~(back(locals[d]) <= deposit)
    THEN Refused(locals)
    ELSE removeAll(locals, {d \in DOMAIN locals : back(locals[d]) >= stackHeight})

\* CompilerContext::isLocalVariable
isLocalVariable(locals, declaration) == declaration \in DOMAIN locals

\* CompilerContext::baseStackOffsetOfVariable of a bound declaration
baseStackOffsetOfVariable(locals, declaration) == back(locals[declaration])

\* the number of offsets in the map
RECURSIVE Bindings(_)
Bindings(locals) ==
  IF DOMAIN locals = {} THEN 0
  ELSE The({ Len(locals[d]) + Bindings(erase(locals, d))
             : d \in {CHOOSE d \in DOMAIN locals : TRUE} })

\* what the history keeps of a call: its arguments, its outcome, and the map
\* and the stack height it started from
LocalCall(op, declaration, argument, r) ==
  [ op |-> op, declaration |-> declaration, argument |-> argument, status |-> r.status,
    before |-> m_localVariables, deposit |-> m_deposit ]

\* the variables a call on the local variables leaves alone
localRest == << m_items, m_usedTags, m_lowLevelFunctions,
                m_lowLevelFunctionGenerationQueue, m_disable_rewrite, warnings, failed,
                pc, cur, steps, requests, generated, hooklog, hookDepth, last, rewritten,
                passvars, queuevars, yulvars, smtvars, depositvars, classifiervars, tagvars >>

\* the compilation goes on until an assertion has failed
Compiling == scoped.status = "returned"

\* the code generator moves the stack height between two calls
MoveStack(deposit) ==
  /\ Compiling
  /\ deposit # m_deposit
  /\ m_deposit' = deposit
  /\ scoped' = [op |-> "none", status |-> "returned"]
  /\ UNCHANGED << m_localVariables, localRest >>

AddVariable(declaration, offsetToCurrent, sizeOnStack) ==
  /\ Compiling
  /\ Bindings(m_localVariables) < MaxBindings
  /\ \E r \in {addVariable(m_localVariables, m_deposit, declaration, offsetToCurrent,
                           sizeOnStack)} :
       /\ m_localVariables' = r.m_localVariables
       /\ scoped' = LocalCall("addVariable", declaration, offsetToCurrent, r)
  /\ UNCHANGED << m_deposit, localRest >>

RemoveVariable(declaration) ==
  /\ Compiling
  /\ \E r \in {removeVariable(m_localVariables, declaration)} :
       /\ m_localVariables' = r.m_localVariables
       /\ scoped' = LocalCall("removeVariable", declaration, 0, r)
  /\ UNCHANGED << m_deposit, localRest >>

RemoveVariablesAboveStackHeight(stackHeight) ==
  /\ Compiling
  /\ \E r \in {removeVariablesAboveStackHeight(m_localVariables, m_deposit, stackHeight)} :
       /\ m_localVariables' = r.m_localVariables
       /\ scoped' = LocalCall("removeVariablesAboveStackHeight", "", stackHeight, r)
  /\ UNCHANGED << m_deposit, localRest >>

VariableNext ==
  \/ \E deposit \in 0..MaxHeight : MoveStack(deposit)
  \/ \E declaration \in LocalDeclarations, offsetToCurrent \in 0..MaxHeight,
        sizeOnStack \in SizesOnStack :
       AddVariable(declaration, offsetToCurrent, sizeOnStack)
  \/ \E declaration \in LocalDeclarations : RemoveVariable(declaration)
  \/ \E stackHeight \in 0..MaxHeight : RemoveVariablesAboveStackHeight(stackHeight)

VariableSpec == Init /\ [][VariableNext]_allvars

\* the offsets of declaration before the last call
OffsetsBefore(declaration) ==
  IF declaration \in DOMAIN scoped.before THEN scoped.before[declaration] ELSE << >>

\* C33: addVariable returns exactly when the stack height is at least
\* offsetToCurrent (and the size of the variable is 1 or 2) and then pushes the
\* height minus offsetToCurrent, which becomes the current offset;
\* removeVariable returns exactly for a bound declaration and pops its most
\* recent offset, so that the offset before it is current again, or erases the
\* entry with its last offset; no entry has an empty list, so isLocalVariable
\* holds exactly for the declarations with an offset.
C33_BindingStack ==
  /\ \A d \in DOMAIN m_localVariables : m_localVariables[d] # << >>
  /\ \A d \in LocalDeclarations :
       isLocalVariable(m_localVariables, d)
         <=> (d \in DOMAIN m_localVariables /\ Len(m_localVariables[d]) >= 1)
  /\ scoped.status # "returned" => m_localVariables = scoped.before
  /\ scoped.op = "addVariable" =>
       /\ scoped.status = "returned" => scoped.deposit >= scoped.argument
       /\ scoped.status = "returned" =>
            /\ m_localVariables[scoped.declaration]
                 = Append(OffsetsBefore(scoped.declaration), scoped.deposit - scoped.argument)
            /\ baseStackOffsetOfVariable(m_localVariables, scoped.declaration)
                 = scoped.deposit - scoped.argument
            /\ \A d \in LocalDeclarations \ {scoped.declaration} :
                 isLocalVariable(m_localVariables, d) <=> isLocalVariable(scoped.before, d)
       /\ scoped.deposit < scoped.argument => scoped.status = "InternalCompilerError"
  /\ scoped.op = "removeVariable" =>
       /\ scoped.status = "returned" <=> isLocalVariable(scoped.before, scoped.declaration)
       /\ scoped.status = "returned" =>
            IF Len(OffsetsBefore(scoped.declaration)) = 1
              THEN m_localVariables = erase(scoped.before, scoped.declaration)
              ELSE /\ m_localVariables =
                        [scoped.before EXCEPT ![scoped.declaration] = pop_back(@)]
                   /\ baseStackOffsetOfVariable(m_localVariables, scoped.declaration)
                        = OffsetsBefore(scoped.declaration)[Len(OffsetsBefore(scoped.declaration)) - 1]

\* a shadowing binding was removed and the earlier offset is current again
C33_Witness ==
  /\ scoped.op = "removeVariable" /\ scoped.status = "returned"
  /\ Len(OffsetsBefore(scoped.declaration)) = 2
  /\ OffsetsBefore(scoped.declaration)[1] # OffsetsBefore(scoped.declaration)[2]
  /\ baseStackOffsetOfVariable(m_localVariables, scoped.declaration)
       = OffsetsBefore(scoped.declaration)[1]

\* C38 as stated: after removeVariablesAboveStackHeight(h) has returned, no
\* local variable has a current offset greater than or equal to h.
C38_NoStaleBinding ==
  (scoped.op = "removeVariablesAboveStackHeight" /\ scoped.status = "returned") =>
    \A d \in DOMAIN m_localVariables :
      baseStackOffsetOfVariable(m_localVariables, d) < scoped.argument
====
